---- MODULE Spec2Model ----
(***************************************************************************)
(* Downloader cog of Red-DiscordBot: the update resolver                   *)
(* (_available_updates), the install executor (_install_cogs,              *)
(* _reinstall_libraries, _update_cogs_and_libs) and the commands built on  *)
(* them (install, installversion, uninstall, pin, unpin, checkforupdates,  *)
(* update, updateallfromrepos, updatetoversion, repo update, repo delete,  *)
(* reinstallreqs), with the loading of the cog (initialize, the schema     *)
(* migration, cog_before_invoke).                                          *)
(*                                                                         *)
(* A command is one action.  What the collaborators answer during a        *)
(* command (where a fetch lands, what a diff reports, which copy fails,    *)
(* where an exception or a cancellation strikes) is chosen with \E.        *)
(***************************************************************************)
EXTENDS Integers, Sequences, FiniteSets, TLC

VARIABLES
    installed_cogs,      \* config.installed_cogs: the persisted cog records
    installed_libraries, \* config.installed_libraries: the persisted library records
    commit,              \* Repo.commit: the checked-out ref of each repository
    branch,              \* the commit repo.branch points to in the working copy
    repos,               \* RepoManager.repos: names of the repositories that exist
    install_path,        \* cog_install_path(): pairs <<cog name, ref the files were copied at>>
    result,              \* what the last command observed and returned
    ops,                 \* commands run so far
    tasks,               \* the invocations in flight: position and locals of each
    ready,               \* Downloader._ready: the event is set
    ready_raised,        \* Downloader._ready_raised
    init_task,           \* Downloader._init_task: position, locals, whether its done callback ran
    schema_version,      \* config.schema_version
    installed_raw        \* the raw "installed" list of schema 0: entries <<repo_name, cog_name>>

\* what loading the cog sets up
startup == <<ready, ready_raised, init_task, schema_version, installed_raw>>

vars == <<installed_cogs, installed_libraries, commit, branch, repos, install_path, result, ops,
          tasks, startup>>

----------------------------------------------------------------------------
(* Bounds *)

MaxCommit == 2   \* commits 1..MaxCommit are one linear history; MaxCommit+1 is a rewritten head
MaxOps == 1      \* commands per behaviour
MaxFaults == 1   \* irregular answers of the collaborators per command
MaxMissing == 1  \* installed cogs whose files were removed by hand before the bot started
MaxCogs == 2     \* cogs in one call of _filter_incorrect_cogs taken by itself
MaxModules == 2  \* records in one call of _save_to_installed or _remove_from_installed taken by itself
MaxTasks == 2    \* commands in flight at once when their awaits interleave
MaxReqs == 2     \* requirements one cog declares in a call of _install_requirements taken by itself
MaxLegacy == 2   \* entries of the raw "installed" list of schema 0

----------------------------------------------------------------------------
(* The repositories and what they publish *)

NoCommit == 0    \* "commit": "" of a migrated record

AllRepos == {"r1", "r2"}

Commits == 1..(MaxCommit + 1)

Rewritten == MaxCommit + 1

ModulesOf(r) == IF r = "r1" THEN {"a", "b", "lib"} ELSE {"d"}

InstallableType(n) == IF n = "lib" THEN "SHARED_LIBRARY" ELSE "COG"

AllKeys == {<<r, n>> : r \in AllRepos, n \in {"a", "b", "lib", "d"}} \cap
           UNION {{<<r, n>> : n \in ModulesOf(r)} : r \in AllRepos}

CogKeys == {k \in AllKeys : InstallableType(k[2]) = "COG"}

CogNames == {k[2] : k \in CogKeys}

\* Installable.requirements as declared in info.json
Requirements(n) == IF n = "a" THEN {"qa"} ELSE IF n = "d" THEN {"qd"} ELSE {}

\* await repo.checkout(rev): the refs after it
checkout(refs, r, rev) == [x \in AllRepos |-> IF x = r THEN rev ELSE refs[x]]

\* Repo.is_ancestor(maybe_ancestor_rev, descendant_rev)
is_ancestor(a, b) == a # NoCommit /\ (a = b \/ (a < b /\ b <= MaxCommit))

\* red_version_info and sys.version_info of the running bot
red_version_info == <<3, 3, 0>>

version_info == <<3, 8, 1>>

\* tuple comparison of Python: a > b
Greater(a, b) ==
    \/ a[1] > b[1]
    \/ a[1] = b[1] /\ a[2] > b[2]
    \/ a[1] = b[1] /\ a[2] = b[2] /\ a[3] > b[3]

----------------------------------------------------------------------------
(* Records *)

\* InstalledModule.to_json
InstalledModule(r, n, c, p) == [repo_name |-> r, name |-> n, commit |-> c, pinned |-> p]

Key(m) == <<m.repo_name, m.name>>

\* InstalledModule.from_json gives repo = None when the repository was removed
HasRepo(m) == m.repo_name \in repos

\* An Installable as the repository publishes it at commit c; irr holds the
\* irregular facts of this command
Installable(r, n, c, irr) ==
    [repo_name |-> r, name |-> n, commit |-> c,
     disabled |-> <<"disabled", <<r, n>>>> \in irr,
     min_python_version |-> IF <<"outdated_py", <<r, n>>>> \in irr THEN <<3, 9, 0>> ELSE <<3, 8, 1>>,
     min_bot_version |-> IF <<"outdated_bot", <<r, n>>>> \in irr THEN <<3, 4, 0>> ELSE <<3, 0, 0>>,
     max_bot_version |-> <<0, 0, 0>>]

\* InstalledModule.from_installable
from_installable(cog) == InstalledModule(cog.repo_name, cog.name, cog.commit, FALSE)

RECURSIVE SubsetsUpTo(_, _)
\* the subsets of S with at most k elements
SubsetsUpTo(S, k) ==
    IF k <= 0 THEN {{}}
    ELSE LET smaller == SubsetsUpTo(S, k - 1)
         IN smaller \cup {x \cup {y} : x \in smaller, y \in S}

\* the cog as it is once initialize() has returned: the state commands run in
Initialized ==
    /\ ready = TRUE
    /\ ready_raised = FALSE
    /\ init_task = [pc |-> "finished", callback_ran |-> TRUE, schema_version |-> 1, old_conf |-> <<>>]
    /\ schema_version = 1
    /\ installed_raw = <<>>

----------------------------------------------------------------------------
(* The persisted map *)

\* a save that appends to the map and leaves the earlier record in place
MergeKeepingOld(installed, modules) == installed \cup modules

\* the merge of _save_to_installed into one of the two maps
Merge(installed, modules) ==
    {m \in installed : \A x \in modules : Key(x) # Key(m)} \cup modules

\* _save_to_installed: [cogs, libraries] after saving modules
save_to_installed(cogs, libraries, modules) ==
    [cogs |-> Merge(cogs, {m \in modules : InstallableType(m.name) = "COG"}),
     libraries |-> Merge(libraries, {m \in modules : InstallableType(m.name) = "SHARED_LIBRARY"})]
\* remove_from_installed that looks the record up under the name of the live
\* repository: the record of a removed repository stays
RemoveFromKnownRepos(cogs, libraries, modules) ==
    [cogs |-> {m \in cogs : \A x \in modules :
                  (InstallableType(x.name) = "COG" /\ HasRepo(x)) => Key(x) # Key(m)},
     libraries |-> libraries]

\* _remove_from_installed
remove_from_installed(cogs, libraries, modules) ==
    [cogs |-> {m \in cogs : \A x \in modules :
                  InstallableType(x.name) = "COG" => Key(x) # Key(m)},
     libraries |-> {m \in libraries : \A x \in modules :
                  InstallableType(x.name) = "SHARED_LIBRARY" => Key(x) # Key(m)}]

----------------------------------------------------------------------------
(* The irregular answers of one command.  irr is a set of pairs <<kind, x>>: *)
(*   <<"disabled", key>>       info.json of the module says disabled         *)
(*   <<"outdated_py", key>>    min_python_version above the interpreter      *)
(*   <<"outdated_bot", key>>   min_bot_version above the bot                 *)
(*   <<"no_occurrence", key>>  get_last_module_occurrence returns None       *)
(*   <<"old_occurrence", key>> the module last occurs before HEAD            *)
(*   <<"failed_copy", key>>    Installable.copy_to returns False             *)
(*   <<"failed_lib", key>>     install_libraries reports the library failed  *)
(*   <<"failed_req", req>>     install_raw_requirements returns False        *)
(* A repository whose Repo.update raises UpdateError is chosen apart, as     *)
(* `failed`, and counts against the same bound.                              *)

Has(irr, kind, x) == <<kind, x>> \in irr

\* an await may raise (an exception, a cancellation) in a command whose other
\* irregular answers leave room for it; the commit a module last occurs at
\* is a fact of the history and takes no room
Raisable(irr, budget) ==
    Cardinality({f \in irr : f[1] # "old_occurrence"}) < budget

----------------------------------------------------------------------------
(* _available_updates *)

\* repos = {cog.repo for cog in cogs if cog.repo is not None}
CheckedRepos(cogs) == {c.repo_name : c \in {x \in cogs : HasRepo(x)}}

\* Repo.available_libraries
available_libraries(r) == {n \in ModulesOf(r) : InstallableType(n) = "SHARED_LIBRARY"}

\* Repo.available_cogs
available_cogs(r) == {n \in ModulesOf(r) : InstallableType(n) = "COG"}

\* MissingLibraries left out: only the diff brings a library in
NoMissingLibraries(cogs, libraries, cmt, irr) == {}

\* the available libraries of the checked repos that have no record
MissingLibraries(cogs, libraries, cmt, irr) ==
    {Installable(k[1], k[2], cmt[k[1]], irr) :
        k \in {x \in AllKeys : /\ x[1] \in CheckedRepos(cogs)
                               /\ x[2] \in available_libraries(x[1])
                               /\ \A l \in libraries : Key(l) # x}}

\* `modules`: the records that may need an update
ModulesToCheck(cogs, libraries) ==
    {l \in libraries : /\ l.repo_name \in CheckedRepos(cogs)
                       /\ l.name \in available_libraries(l.repo_name)}
    \cup {c \in cogs : HasRepo(c) /\ c.commit # NoCommit}

\* the records without commit data
Legacy(cogs) == {c \in cogs : HasRepo(c) /\ c.commit = NoCommit}

\* Repo.get_last_module_occurrence: the empty set for None
get_last_module_occurrence(c, cmt, irr) ==
    LET head == cmt[c.repo_name]
        at == IF Has(irr, "old_occurrence", Key(c)) /\ head \in 2..MaxCommit
              THEN head - 1 ELSE head
    IN IF Has(irr, "no_occurrence", Key(c)) THEN {}
       ELSE {Installable(c.repo_name, c.name, at, irr)}

\* LegacyUpdates without the test of the disabled flag
LegacyUpdatesWithDisabled(cogs, cmt, irr) ==
    UNION {get_last_module_occurrence(c, cmt, irr) : c \in Legacy(cogs)}

\* the back-compat marking of the records without commit data
LegacyUpdates(cogs, cmt, irr) ==
    {i \in UNION {get_last_module_occurrence(c, cmt, irr) : c \in Legacy(cogs)} :
        ~i.disabled}

\* NeedsDiff without the comparison of the two commits
NeedsDiffOfAncestors(m, cmt) == is_ancestor(m.commit, cmt[m.repo_name])

\* NeedsDiff without the ancestry test: every record at another commit is diffed
NeedsDiffWithoutAncestry(m, cmt) == cmt[m.repo_name] # m.commit

\* the condition under which a module enters `hashes`
NeedsDiff(m, cmt) ==
    cmt[m.repo_name] # m.commit /\ is_ancestor(m.commit, cmt[m.repo_name])

HashKey(m) == <<m.repo_name, m.commit>>

\* the members of all groups of `hashes`
Hashed(modules, cmt) == {m \in modules : NeedsDiff(m, cmt)}

\* DiffCalls with one get_modified_modules call per module
DiffCallsPerModule(hashed) ==
    [k \in {HashKey(m) : m \in hashed} |-> Cardinality({m \in hashed : HashKey(m) = k})]

\* get_modified_modules calls, counted per (repo, old_hash)
DiffCalls(hashed) == [k \in {HashKey(m) : m \in hashed} |-> 1]

\* is_ancestor calls, counted per (repo, commit)
AncestorCalls(modules, cmt) ==
    LET asked == {m \in modules : cmt[m.repo_name] # m.commit}
    IN [k \in {HashKey(m) : m \in asked} |->
            Cardinality({m \in asked : HashKey(m) = k})]

\* FastForward building the records anew, which loses the pinned flag
FastForwardClearingPin(hashed, modified, cmt) ==
    {InstalledModule(m.repo_name, m.name, cmt[m.repo_name], FALSE) :
        m \in {x \in hashed : Key(x) \notin modified}}

\* FastForward without the test against the diff: every hashed record moves
FastForwardAll(hashed, modified, cmt) ==
    {[m EXCEPT !.commit = cmt[m.repo_name]] : m \in hashed}

\* FastForward left out: update_commits stays empty
NoFastForward(hashed, modified, cmt) == {}

\* the records whose module the diff does not name: commit moved to repo.commit
FastForward(hashed, modified, cmt) ==
    {[m EXCEPT !.commit = cmt[m.repo_name]] : m \in {x \in hashed : Key(x) \notin modified}}

\* ModifiedModules with the diff ignored: every hashed module counts as modified
AllHashedModules(hashed, modified, cmt, irr) ==
    {Installable(m.repo_name, m.name, cmt[m.repo_name], irr) : m \in hashed}

\* the modules the diff names, as published at repo.commit
ModifiedModules(hashed, modified, cmt, irr) ==
    {Installable(m.repo_name, m.name, cmt[m.repo_name], irr) :
        m \in {x \in hashed : Key(x) \in modified}}

\* _available_updates(cogs); `modified` is what the diffs name
available_updates(cogs, libraries, cmt, modified, irr) ==
    LET modules == ModulesToCheck(cogs, libraries)
        hashed == Hashed(modules, cmt)
        changed == ModifiedModules(hashed, modified, cmt, irr)
    IN [cogs_to_update |->
            LegacyUpdates(cogs, cmt, irr) \cup
            {i \in changed : InstallableType(i.name) = "COG" /\ ~i.disabled},
        libraries_to_update |->
            MissingLibraries(cogs, libraries, cmt, irr) \cup
            {i \in changed : InstallableType(i.name) = "SHARED_LIBRARY"},
        update_commits |-> FastForward(hashed, modified, cmt),
        diff_calls |-> DiffCalls(hashed),
        ancestor_calls |-> AncestorCalls(modules, cmt)]

\* the modules a diff of this call can name
DiffCandidates(cogs, libraries, cmt) ==
    {Key(m) : m \in Hashed(ModulesToCheck(cogs, libraries), cmt)}

----------------------------------------------------------------------------
(* _filter_incorrect_cogs *)

PythonOutdated(cog) == Greater(cog.min_python_version, version_info)

ignore_max(cog) == Greater(cog.min_bot_version, cog.max_bot_version)

BotOutdated(cog) ==
    \/ Greater(cog.min_bot_version, red_version_info)
    \/ ~ignore_max(cog) /\ Greater(red_version_info, cog.max_bot_version)

\* correct_cogs of _filter_incorrect_cogs
filter_incorrect_cogs(cogs) == {c \in cogs : ~PythonOutdated(c) /\ ~BotOutdated(c)}

\* _filter_incorrect_cogs raises KeyError: with exactly one cog in
\* outdated_python_version the message is built by
\* "{cog} require ...".format(outdated_python_version[0])
filter_raises(cogs) == Cardinality({c \in cogs : PythonOutdated(c)}) = 1

\* the loop of _filter_incorrect_cogs over the list `cogs`: the three lists it
\* builds, each in the order of `cogs`
RECURSIVE FilterLoop(_)
FilterLoop(cogs) ==
    IF cogs = <<>>
    THEN [correct_cogs |-> <<>>, outdated_python_version |-> <<>>, outdated_bot_version |-> <<>>]
    ELSE LET cog == Head(cogs)
             rest == FilterLoop(Tail(cogs))
         IN IF PythonOutdated(cog)
            THEN [rest EXCEPT !.outdated_python_version = <<cog.name>> \o @]
            ELSE IF BotOutdated(cog)
            THEN [rest EXCEPT !.outdated_bot_version = <<cog.name>> \o @]
            ELSE [rest EXCEPT !.correct_cogs = <<cog>> \o @]

\* _filter_incorrect_cogs on the list `cogs`: what it returns (correct_cogs)
\* and reports in its message; with exactly one name in
\* outdated_python_version the format call raises and nothing is returned
FilterIncorrectCogs(cogs) ==
    LET lists == FilterLoop(cogs)
    IN IF Len(lists.outdated_python_version) = 1
       THEN [raised |-> TRUE, correct_cogs |-> <<>>,
             outdated_python_version |-> <<>>, outdated_bot_version |-> <<>>]
       ELSE [raised |-> FALSE, correct_cogs |-> lists.correct_cogs,
             outdated_python_version |-> lists.outdated_python_version,
             outdated_bot_version |-> lists.outdated_bot_version]

----------------------------------------------------------------------------
(* _install_requirements *)

\* install_requirements with every failure dropped: failed_reqs stays empty
NoFailedRequirements(cogs, irr) == {}

\* failed_reqs
install_requirements(cogs, irr) ==
    {q \in UNION {Requirements(c.name) : c \in cogs} : Has(irr, "failed_req", q)}

----------------------------------------------------------------------------
(* _install_cogs and _reinstall_libraries.  A call is the sequence of its    *)
(* awaits; raise_at = k > 0 makes the k-th await raise (an exception of the  *)
(* collaborator or the cancellation of the task), raise_at = 0 none.         *)

RECURSIVE SetToSeq(_)
\* tuple(...) of a set: some order
SetToSeq(S) ==
    IF S = {} THEN <<>>
    ELSE LET x == CHOOSE y \in S : TRUE IN <<x>> \o SetToSeq(S \ {x})

RECURSIVE Flatten(_)
Flatten(ss) == IF ss = <<>> THEN <<>> ELSE Head(ss) \o Flatten(Tail(ss))

\* for cog in cogs_to_install: await cog.copy_to(...)
CopySteps(group) == [i \in 1..Len(group) |-> <<"copy_to", group[i]>>]

\* a group that copies every cog of the call, whatever its repository and commit
CogGroupStepsOfAll(r, c, cogs) ==
    <<<<"checkout", r, c>>>> \o CopySteps(SetToSeq(cogs))

\* one (commit, cogs_to_install) item of cogs_by_commit
CogGroupSteps(r, c, cogs) ==
    <<<<"checkout", r, c>>>> \o
    CopySteps(SetToSeq({x \in cogs : x.repo_name = r /\ x.commit = c}))

\* one (commit, libs) item of libs_by_commit
LibGroupSteps(r, c, libs) ==
    <<<<"checkout", r, c>>,
      <<"install_libraries", {x \in libs : x.repo_name = r /\ x.commit = c}>>>>

\* the body of `for repo, cogs_by_commit in repos.values()` in _install_cogs
CogRepoSteps(r, cogs, exit_to_commit) ==
    LET cs == SetToSeq({x.commit : x \in {y \in cogs : y.repo_name = r}})
    IN Flatten([i \in 1..Len(cs) |-> CogGroupSteps(r, cs[i], cogs)]) \o
       <<<<"checkout", r, exit_to_commit>>>>

\* the body of `for repo, libs_by_commit in repos.values()` in _reinstall_libraries
LibRepoSteps(r, libs, exit_to_commit) ==
    LET cs == SetToSeq({x.commit : x \in {y \in libs : y.repo_name = r}})
    IN Flatten([i \in 1..Len(cs) |-> LibGroupSteps(r, cs[i], libs)]) \o
       <<<<"checkout", r, exit_to_commit>>>>

\* Await with the result of copy_to ignored: every copied cog counts as installed
AwaitIgnoringCopyResult(step, irr, st) ==
    IF step[1] = "checkout"
    THEN [st EXCEPT !.commit = checkout(st.commit, step[2], step[3])]
    ELSE IF step[1] = "copy_to"
    THEN [st EXCEPT !.installed = @ \cup {from_installable(step[2])}]
    ELSE [st EXCEPT !.installed = @ \cup {from_installable(l) : l \in step[2]}]

\* Await that counts a cog whose copy failed as installed as well
AwaitRecordingFailedCopy(step, irr, st) ==
    IF step[1] = "checkout"
    THEN [st EXCEPT !.commit = checkout(st.commit, step[2], step[3])]
    ELSE IF step[1] = "copy_to"
    THEN LET cog == step[2] IN
         IF Has(irr, "failed_copy", Key(cog))
         THEN [st EXCEPT !.failed = @ \cup {cog},
                         !.installed = @ \cup {from_installable(cog)}]
         ELSE [st EXCEPT !.installed = @ \cup {from_installable(cog)},
                         !.files = {f \in @ : f[1] # cog.name} \cup
                                   {<<cog.name, st.commit[cog.repo_name]>>},
                         !.copied = @ \cup {<<cog.name, cog.commit, st.commit[cog.repo_name]>>}]
    ELSE LET bad == {l \in step[2] : Has(irr, "failed_lib", Key(l))} IN
         [st EXCEPT !.installed = @ \cup {from_installable(l) : l \in step[2]},
                    !.failed = @ \cup bad]

\* the effect of one await on [commit, files, installed, failed, copied]
Await(step, irr, st) ==
    IF step[1] = "checkout"
    THEN [st EXCEPT !.commit = checkout(st.commit, step[2], step[3])]
    ELSE IF step[1] = "copy_to"
    THEN LET cog == step[2] IN
         IF Has(irr, "failed_copy", Key(cog))
         THEN [st EXCEPT !.failed = @ \cup {cog}]
         ELSE [st EXCEPT !.installed = @ \cup {from_installable(cog)},
                         !.files = {f \in @ : f[1] # cog.name} \cup
                                   {<<cog.name, st.commit[cog.repo_name]>>},
                         !.copied = @ \cup {<<cog.name, cog.commit, st.commit[cog.repo_name]>>}]
    ELSE LET bad == {l \in step[2] : Has(irr, "failed_lib", Key(l))} IN
         [st EXCEPT !.installed = @ \cup {from_installable(l) : l \in step[2] \ bad},
                    !.failed = @ \cup bad]

RECURSIVE RunSteps(_, _, _, _, _)
RunSteps(steps, i, raise_at, irr, st) ==
    IF i > Len(steps) THEN st
    ELSE IF i = raise_at THEN [st EXCEPT !.raised = TRUE]
    ELSE RunSteps(steps, i + 1, raise_at, irr, Await(steps[i], irr, st))

Started(cmt, files) ==
    [commit |-> cmt, files |-> files, installed |-> {}, failed |-> {},
     copied |-> {}, raised |-> FALSE]

InstallCogsSteps(cogs, cmt) ==
    LET rs == SetToSeq({x.repo_name : x \in cogs})
    IN Flatten([i \in 1..Len(rs) |-> CogRepoSteps(rs[i], cogs, cmt[rs[i]])])

ReinstallLibrariesSteps(libs, cmt) ==
    LET rs == SetToSeq({x.repo_name : x \in libs})
    IN Flatten([i \in 1..Len(rs) |-> LibRepoSteps(rs[i], libs, cmt[rs[i]])])

\* _install_cogs(cogs) started with the refs cmt and the files `files`
install_cogs(cogs, cmt, files, irr, raise_at) ==
    RunSteps(InstallCogsSteps(cogs, cmt), 1, raise_at, irr, Started(cmt, files))

\* _reinstall_libraries(libraries)
reinstall_libraries(libs, cmt, files, irr, raise_at) ==
    RunSteps(ReinstallLibrariesSteps(libs, cmt), 1, raise_at, irr, Started(cmt, files))

\* _update_cogs_and_libs: what it leaves behind
\*   reqs: failed_reqs; c, l: the two executor calls; saved: the records saved
update_cogs_and_libs(cogs_to_update, libs_to_update, cmt, files, irr, raise_at) ==
    LET failed_reqs == install_requirements(cogs_to_update, irr)
        c == install_cogs(cogs_to_update, cmt, files, irr, raise_at)
        n == Len(InstallCogsSteps(cogs_to_update, cmt))
        l == reinstall_libraries(libs_to_update, c.commit, c.files, irr,
                                 IF raise_at > n THEN raise_at - n ELSE 0)
        idle == Started(cmt, files)
    IN IF failed_reqs # {}
       THEN [failed_reqs |-> failed_reqs, called |-> FALSE, c |-> idle, l |-> idle,
             commit |-> cmt, files |-> files, saved |-> {}, raised |-> FALSE]
       ELSE IF c.raised
       THEN [failed_reqs |-> {}, called |-> TRUE, c |-> c, l |-> idle,
             commit |-> c.commit, files |-> c.files, saved |-> {}, raised |-> TRUE]
       ELSE [failed_reqs |-> {}, called |-> TRUE, c |-> c, l |-> l,
             commit |-> l.commit, files |-> c.files,
             saved |-> IF l.raised THEN {} ELSE c.installed \cup l.installed,
             raised |-> l.raised]

\* the number of awaits of _update_cogs_and_libs
UpdateAwaits(cogs_to_update, libs_to_update, cmt) ==
    Len(InstallCogsSteps(cogs_to_update, cmt)) + Len(ReinstallLibrariesSteps(libs_to_update, cmt))

----------------------------------------------------------------------------
(* What a command leaves in `result` *)

NoResolve ==
    [cogs_to_update |-> {}, libraries_to_update |-> {}, update_commits |-> {},
     diff_calls |-> <<>>, ancestor_calls |-> <<>>]

NoUpdate ==
    [failed_reqs |-> {}, called |-> FALSE, c |-> Started(commit, install_path),
     l |-> Started(commit, install_path), commit |-> commit, files |-> install_path,
     saved |-> {}, raised |-> FALSE]

Result(op) ==
    [op |-> op,
     before_cogs |-> installed_cogs,      \* the maps when the command started
     before_libs |-> installed_libraries,
     before_commit |-> commit,            \* the refs when the command started
     repos_arg |-> {},                    \* `repos` and `cogs` given to _get_cogs_to_check
     cogs_arg |-> {},
     to_check |-> {},                     \* `cogs_to_check` of _get_cogs_to_check
     failed_repos |-> {},                 \*   and its `failed`
     pinned_cogs |-> {},                  \* the cogs the pin filter removed
     resolved |-> FALSE,                  \* _available_updates was called
     checked |-> {},                      \*   with these records
     at |-> commit,                       \*   at these refs
     modified |-> {},                     \*   the diffs naming these modules
     irr |-> {},                          \*   the irregular answers of this command
     resolve |-> NoResolve,               \*   returning this
     resolved_cogs |-> installed_cogs,    \*   leaving these maps
     resolved_libs |-> installed_libraries,
     updating |-> FALSE,                  \* _update_cogs_and_libs / _install_cogs was called
     requested |-> {},                    \*   with these cogs
     update |-> NoUpdate,                 \*   doing this
     rev_error |-> "none",                \* get_full_sha1 raised: "ambiguous" or "unknown"
     candidates |-> {},                   \*   e.candidates of AmbiguousRevision
     uninstalled_cogs |-> {},             \* uninstall: the names whose files were deleted
     failed_cogs |-> {},                  \*   and the names whose files were not found
     message |-> {},                      \* what the command sent: parts <<kind, names>>
     raised |-> FALSE]                    \* the command ended by an exception

----------------------------------------------------------------------------
(* The message a command sends, as the set of its parts <<kind, names>> *)

\* one part, left out when it has nothing to name
Part(kind, names) == IF names = {} THEN {} ELSE {<<kind, names>>}

Names(modules) == {m.name : m \in modules}

\* `message` of _filter_incorrect_cogs
filter_message(cogs) ==
    Part("outdated_python_version", Names({c \in cogs : PythonOutdated(c)}))
    \cup Part("outdated_bot_version", Names({c \in cogs : ~PythonOutdated(c) /\ BotOutdated(c)}))

\* `message` of _cog_checkforupdates
checkforupdates_message(cogs_to_update, libs_to_update, outdated, failed) ==
    LET updates == Part("can_be_updated", Names(cogs_to_update))
                   \cup Part("libraries_can_be_updated", Names(libs_to_update))
        body == updates
                \cup (IF updates = {} /\ outdated # {}
                      THEN {<<"no_cogs_can_be_updated", {}>>} ELSE {})
                \cup outdated
    IN (IF body = {} THEN {<<"up_to_date", {}>>} ELSE body)
       \cup Part("failed_repos", failed)

\* `message` of _update_cogs_and_libs, u being what it did
update_cogs_and_libs_message(cogs_to_update, u) ==
    IF u.failed_reqs # {} THEN {<<"failed_requirements", u.failed_reqs>>}
    ELSE (IF cogs_to_update = {} THEN {<<"no_cogs_were_updated", {}>>}
          ELSE {<<"update_completed", {}>>}
               \cup Part("updated", Names(u.c.installed))
               \cup Part("failed_to_update", Names(u.c.failed)))
         \cup Part("libraries_updated", Names(u.l.installed))
         \cup Part("failed_libraries", Names(u.l.failed))

\* `message` of _cog_update_logic once cogs_to_check is known not to be empty
update_message(updates_available, cogs_to_update, u, pinned_cogs, outdated, failed) ==
    (IF updates_available THEN update_cogs_and_libs_message(cogs_to_update, u)
     ELSE {<<"up_to_date", {}>>})
    \cup Part("pinned", Names(pinned_cogs))
    \cup outdated
    \cup Part("failed_repos", failed)

----------------------------------------------------------------------------
(* Repo.get_full_sha1 *)

\* what Repo.get_full_sha1 can raise: AmbiguousRevision with at least two
\* candidates, or UnknownRevision
RevisionErrors ==
    {[error |-> "ambiguous", candidates |-> S] :
        S \in {T \in SUBSET Commits : Cardinality(T) >= 2}}
    \cup {[error |-> "unknown", candidates |-> {}]}

\* one message for both errors
SameMessageForBoth(e) == {<<"unknown_revision", {}>>}

\* the message of the `except errors.AmbiguousRevision` and
\* `except errors.UnknownRevision` clauses; the first lists e.candidates
revision_error_message(e) ==
    IF e.error = "ambiguous" THEN {<<"ambiguous_revision", {}>>}
    ELSE {<<"unknown_revision", {}>>}

----------------------------------------------------------------------------
(* RepoManager.update_repos *)

\* where a fetch can land: the branch moves forward or its history is rewritten
HeadsFor(targets) ==
    {h \in [AllRepos -> Commits] :
        \A r \in AllRepos : IF r \in targets THEN h[r] >= branch[r] ELSE h[r] = branch[r]}

\* Repo.update on the targets that did not fail
Fetched(refs, targets, heads) == [r \in AllRepos |-> IF r \in targets THEN heads[r] ELSE refs[r]]

----------------------------------------------------------------------------
(* _get_cogs_to_check *)

\* the repositories _get_cogs_to_check updates
ReposToUpdate(repos_arg, cogs_arg) ==
    IF cogs_arg = {} /\ repos_arg = {} THEN repos
    ELSE IF repos_arg = {} THEN {c.repo_name : c \in {x \in cogs_arg : HasRepo(x)}}
    ELSE repos_arg
\* get_cogs_to_check without the test `cog.repo is not None`
get_cogs_to_check_any_repo(repos_arg, cogs_arg, failed) ==
    IF cogs_arg = {} /\ repos_arg = {}
    THEN {c \in installed_cogs : c.repo_name \notin failed}
    ELSE IF cogs_arg # {} THEN cogs_arg
    ELSE {c \in installed_cogs : c.repo_name \in repos_arg \ failed}

\* get_cogs_to_check that keeps the cogs of the repositories that failed
get_cogs_to_check_of_failed(repos_arg, cogs_arg, failed) ==
    IF cogs_arg = {} /\ repos_arg = {}
    THEN {c \in installed_cogs : HasRepo(c)}
    ELSE IF cogs_arg # {}
    THEN {c \in cogs_arg : HasRepo(c) /\ c.repo_name \in ReposToUpdate(repos_arg, cogs_arg)}
    ELSE {c \in installed_cogs : HasRepo(c) /\ c.repo_name \in repos_arg}

\* get_cogs_to_check that gives up the sweep when a repository failed
get_cogs_to_check_or_nothing(repos_arg, cogs_arg, failed) ==
    IF failed # {} THEN {}
    ELSE IF cogs_arg = {} /\ repos_arg = {}
    THEN {c \in installed_cogs : HasRepo(c)}
    ELSE IF cogs_arg # {}
    THEN {c \in cogs_arg : HasRepo(c) /\ c.repo_name \in ReposToUpdate(repos_arg, cogs_arg)}
    ELSE {c \in installed_cogs : HasRepo(c) /\ c.repo_name \in repos_arg}

\* cogs_to_check of _get_cogs_to_check
get_cogs_to_check(repos_arg, cogs_arg, failed) ==
    LET rs == ReposToUpdate(repos_arg, cogs_arg) \ failed
    IN IF cogs_arg = {} /\ repos_arg = {}
       THEN {c \in installed_cogs : HasRepo(c) /\ c.repo_name \notin failed}
       ELSE IF cogs_arg # {}
       THEN {c \in cogs_arg : HasRepo(c) /\ c.repo_name \in rs}
       ELSE {c \in installed_cogs : HasRepo(c) /\ c.repo_name \in rs}

----------------------------------------------------------------------------
(* The irregular answers that can matter to a resolve followed by an update *)

UpdateIrrs(cogs, libraries, cmt, modified) ==
    LET legacy == {Key(c) : c \in Legacy(cogs)}
        missing == {Key(l) : l \in MissingLibraries(cogs, libraries, cmt, {})}
        produced == modified \cup legacy \cup missing
        pcogs == produced \cap CogKeys
        plibs == produced \ CogKeys
    IN {<<"disabled", k>> : k \in produced}
       \cup {<<"outdated_py", k>> : k \in pcogs}
       \cup {<<"outdated_bot", k>> : k \in pcogs}
       \cup {<<"no_occurrence", k>> : k \in legacy}
       \cup {<<"old_occurrence", k>> : k \in legacy}
       \cup {<<"failed_copy", k>> : k \in pcogs}
       \cup {<<"failed_lib", k>> : k \in plibs}
       \cup {<<"failed_req", q>> : q \in UNION {Requirements(k[2]) : k \in pcogs}}

----------------------------------------------------------------------------
(* checkforupdates *)

CogCheckForUpdates ==
    /\ ops < MaxOps
    /\ \E failed \in SubsetsUpTo(repos, MaxFaults) :
       \E heads \in HeadsFor(repos \ failed) :
       \E cmt1 \in {Fetched(commit, repos \ failed, heads)} :
       \E cogs_to_check \in {get_cogs_to_check({}, {}, failed)} :
            \E modified \in SUBSET DiffCandidates(cogs_to_check, installed_libraries, cmt1) :
            \E irr \in SubsetsUpTo(UpdateIrrs(cogs_to_check, installed_libraries, cmt1, modified),
                                   MaxFaults - Cardinality(failed)) :
            \E res \in {available_updates(cogs_to_check, installed_libraries, cmt1, modified, irr)} :
            \E s1 \in {save_to_installed(installed_cogs, installed_libraries, res.update_commits)} :
                 /\ installed_cogs' = s1.cogs
                 /\ installed_libraries' = s1.libraries
                 /\ commit' = cmt1
                 /\ branch' = Fetched(branch, repos \ failed, heads)
                 /\ result' = [Result("checkforupdates") EXCEPT
                                  !.failed_repos = failed, !.resolved = TRUE,
                                  !.checked = cogs_to_check, !.at = cmt1,
                                  !.modified = modified, !.irr = irr, !.resolve = res,
                                  !.resolved_cogs = s1.cogs, !.resolved_libs = s1.libraries,
                                  !.message =
                                      IF filter_raises(res.cogs_to_update) THEN {}
                                      ELSE checkforupdates_message(
                                               filter_incorrect_cogs(res.cogs_to_update),
                                               res.libraries_to_update,
                                               filter_message(res.cogs_to_update), failed),
                                  !.raised = filter_raises(res.cogs_to_update)]
    /\ ops' = ops + 1
    /\ UNCHANGED <<tasks, startup>>
    /\ UNCHANGED <<repos, install_path>>

----------------------------------------------------------------------------
(* _cog_update_logic *)

\* PinFilter left out: the pinned cogs stay in cogs_to_check
NoPinFilter(cogs_to_check) == cogs_to_check

\* cogs_to_check -= pinned_cogs
PinFilter(cogs_to_check) == {c \in cogs_to_check : ~c.pinned}

\* _cog_update_logic from `pinned_cogs = ...` on.  repo_arg is {} or {repo};
\* cmt1, br1 are the refs after _get_cogs_to_check; budget is what is left of MaxFaults
UpdateTail(op, repo_arg, repos_arg, cogs_arg, cmt1, br1, failed, to_check, budget) ==
    \E cogs_to_check \in {PinFilter(to_check)} :
    \E base \in {[Result(op) EXCEPT !.repos_arg = repos_arg, !.cogs_arg = cogs_arg,
                                    !.to_check = to_check, !.failed_repos = failed,
                                    !.pinned_cogs = {c \in to_check : c.pinned}]} :
       IF cogs_to_check = {}
       THEN /\ commit' = cmt1
            /\ branch' = br1
            /\ result' = [base EXCEPT
                             !.message = {<<"no_cogs_to_check", {}>>}
                                         \cup Part("pinned", Names(base.pinned_cogs))
                                         \cup Part("failed_repos", failed)]
            /\ UNCHANGED <<installed_cogs, installed_libraries, install_path>>
       ELSE \E modified \in SUBSET DiffCandidates(cogs_to_check, installed_libraries, cmt1) :
            \E irr \in SubsetsUpTo(UpdateIrrs(cogs_to_check, installed_libraries, cmt1, modified),
                                   budget) :
              \E res \in {available_updates(cogs_to_check, installed_libraries, cmt1, modified, irr)} :
              \E s1 \in {save_to_installed(installed_cogs, installed_libraries, res.update_commits)} :
              \E cogs_to_update \in {filter_incorrect_cogs(res.cogs_to_update)} :
              LET updates_available == res.cogs_to_update # {} \/ res.libraries_to_update # {}
                  filter_raised == filter_raises(res.cogs_to_update)
                  updating == updates_available /\ ~filter_raised
                  awaits == IF updating /\ Raisable(irr, budget)
                            THEN UpdateAwaits(cogs_to_update, res.libraries_to_update, cmt1)
                            ELSE 0
              IN \E raise_at \in 0..awaits :
                   \E u \in {IF updating
                            THEN update_cogs_and_libs(cogs_to_update, res.libraries_to_update,
                                                      cmt1, install_path, irr, raise_at)
                            ELSE [NoUpdate EXCEPT !.commit = cmt1]} :
                   \E s2 \in {save_to_installed(s1.cogs, s1.libraries, u.saved)} :
                      /\ installed_cogs' = s2.cogs
                      /\ installed_libraries' = s2.libraries
                      /\ install_path' = u.files
                      /\ commit' = IF u.raised \/ filter_raised THEN u.commit
                                   ELSE [r \in AllRepos |->
                                           IF r \in repo_arg THEN br1[r] ELSE u.commit[r]]
                      /\ branch' = br1
                      /\ result' = [base EXCEPT
                                       !.resolved = TRUE, !.checked = cogs_to_check,
                                       !.at = cmt1, !.modified = modified, !.irr = irr,
                                       !.resolve = res,
                                       !.resolved_cogs = s1.cogs, !.resolved_libs = s1.libraries,
                                       !.updating = updating,
                                       !.requested = IF updating THEN cogs_to_update ELSE {},
                                       !.update = u,
                                       !.message =
                                           IF u.raised \/ filter_raised THEN {}
                                           ELSE update_message(
                                                    updates_available, cogs_to_update, u,
                                                    base.pinned_cogs,
                                                    filter_message(res.cogs_to_update), failed),
                                       !.raised = u.raised \/ filter_raised]

\* `[p]cog update [cogs]` and `[p]cog updateallfromrepos <repos>`
UpdateSweep(op, repos_arg, cogs_arg) ==
    /\ ops < MaxOps
    /\ LET targets == ReposToUpdate(repos_arg, cogs_arg) IN
       \E failed \in SubsetsUpTo(targets, MaxFaults) :
       \E heads \in HeadsFor(targets \ failed) :
       \E cmt1 \in {Fetched(commit, targets \ failed, heads)} :
       \E br1 \in {Fetched(branch, targets \ failed, heads)} :
       \E to_check \in {get_cogs_to_check(repos_arg, cogs_arg, failed)} :
          UpdateTail(op, {}, repos_arg, cogs_arg, cmt1, br1, failed, to_check,
                     MaxFaults - Cardinality(failed))
    /\ ops' = ops + 1
    /\ UNCHANGED <<tasks, startup>>
    /\ UNCHANGED repos

CogUpdate == \E cogs \in SUBSET installed_cogs : UpdateSweep("update", {}, cogs)

CogUpdateAllFromRepos ==
    \E rs \in SUBSET repos : rs # {} /\ UpdateSweep("updateallfromrepos", rs, {})

\* `[p]cog updatetoversion <repo> <rev> [cogs]`
CogUpdateToVersion ==
    /\ ops < MaxOps
    /\ \E repo \in repos :
         \/ /\ MaxFaults > 0    \* repo.update() raises UpdateError
            /\ result' = [Result("updatetoversion") EXCEPT !.failed_repos = {repo}]
            /\ UNCHANGED <<installed_cogs, installed_libraries, install_path, commit, branch>>
         \/ \E heads \in HeadsFor({repo}) :
            \E cmt0 \in {Fetched(commit, {repo}, heads)} :
            \E br1 \in {Fetched(branch, {repo}, heads)} :
                 \/ /\ MaxFaults > 0    \* get_full_sha1 raises
                    /\ \E e \in RevisionErrors :
                         result' = [Result("updatetoversion") EXCEPT
                                       !.rev_error = e.error, !.candidates = e.candidates,
                                       !.message = revision_error_message(e)]
                    /\ commit' = cmt0
                    /\ branch' = br1
                    /\ UNCHANGED <<installed_cogs, installed_libraries, install_path>>
                 \/ \E rev \in Commits, cogs \in SUBSET installed_cogs :
                    \E cmt1 \in {checkout(cmt0, repo, rev)} :
                    \E to_check \in {get_cogs_to_check({repo}, cogs, {})} :
                      UpdateTail("updatetoversion", {repo}, {repo}, cogs, cmt1, br1, {}, to_check,
                                 MaxFaults)
    /\ ops' = ops + 1
    /\ UNCHANGED <<tasks, startup>>
    /\ UNCHANGED repos

----------------------------------------------------------------------------
(* install and installversion *)

\* `cogs` of _filter_incorrect_cogs_by_names before _filter_incorrect_cogs:
\* the names repo.available_cogs holds (it leaves out the disabled cogs) that
\* no installed cog bears
cogs_by_names(repo, cog_names, cmt, irr) ==
    LET found == {Installable(repo, n, cmt[repo], irr) : n \in cog_names \cap available_cogs(repo)}
    IN {c \in found : ~c.disabled /\ \A m \in installed_cogs : m.name # c.name}

\* correct_cogs of _filter_incorrect_cogs_by_names
filter_incorrect_cogs_by_names(repo, cog_names, cmt, irr) ==
    filter_incorrect_cogs(cogs_by_names(repo, cog_names, cmt, irr))

InstallIrrs(repo, cog_names) ==
    LET ks == {<<repo, n>> : n \in cog_names \cap available_cogs(repo)}
    IN {<<kind, k>> : kind \in {"disabled", "outdated_py", "outdated_bot", "failed_copy"}, k \in ks}
       \cup {<<"failed_req", q>> : q \in UNION {Requirements(k[2]) : k \in ks}}
       \cup {<<"failed_lib", <<repo, n>>>> : n \in available_libraries(repo)}

\* repo.install_libraries(target_dir, req_target_dir): every available library, at the checked-out ref
install_libraries(repo, cmt, irr) ==
    {InstalledModule(repo, n, cmt[repo], FALSE) :
        n \in {x \in available_libraries(repo) : ~Has(irr, "failed_lib", <<repo, x>>)}}

\* an install that pins nothing
PinNothing(cogs, rev_given) == cogs

\* an install that pins whatever it installs
PinEverything(cogs, rev_given) == {[m EXCEPT !.pinned = TRUE] : m \in cogs}

\* _cog_installrev: `if rev is not None: for cog in installed_cogs: cog.pinned = True`
pin_installed(cogs, rev_given) ==
    {[m EXCEPT !.pinned = IF rev_given THEN TRUE ELSE m.pinned] : m \in cogs}

\* _cog_installrev with the revision resolved: rev_given is `rev is not None`
CogInstallRev(op, repo, rev_given, rev, cog_names) ==
    \E irr \in SubsetsUpTo(InstallIrrs(repo, cog_names), MaxFaults) :
      \E cmt1 \in {IF rev_given THEN checkout(commit, repo, rev) ELSE commit} :
      \E cogs \in {filter_incorrect_cogs_by_names(repo, cog_names, cmt1, irr)} :
      \E failed_reqs \in {install_requirements(cogs, irr)} :
      \E base \in {[Result(op) EXCEPT !.requested = cogs, !.at = cmt1, !.irr = irr]} :
      \* __aexit__ of repo.checkout(commit, exit_to_rev=repo.branch)
      LET exit(refs) == IF rev_given THEN checkout(refs, repo, branch[repo]) ELSE refs
      IN IF filter_raises(cogs_by_names(repo, cog_names, cmt1, irr))
         THEN /\ commit' = exit(cmt1)
              /\ result' = [base EXCEPT !.requested = {}, !.raised = TRUE]
              /\ UNCHANGED <<installed_cogs, installed_libraries, install_path>>
         ELSE IF cogs = {} \/ failed_reqs # {}
         THEN /\ commit' = exit(cmt1)
              /\ result' = [base EXCEPT !.update.failed_reqs = failed_reqs]
              /\ UNCHANGED <<installed_cogs, installed_libraries, install_path>>
         ELSE \E raise_at \in 0..(IF Raisable(irr, MaxFaults)
                                  THEN Len(InstallCogsSteps(cogs, cmt1)) ELSE 0) :
                \E c \in {install_cogs(cogs, cmt1, install_path, irr, raise_at)} :
                \E cmt2 \in {exit(c.commit)} :
                \E saved \in {IF c.raised THEN {}
                              ELSE pin_installed(c.installed, rev_given)
                                   \cup install_libraries(repo, cmt2, irr)} :
                \E s \in {save_to_installed(installed_cogs, installed_libraries, saved)} :
                   /\ installed_cogs' = s.cogs
                   /\ installed_libraries' = s.libraries
                   /\ install_path' = c.files
                   /\ commit' = cmt2
                   /\ result' = [base EXCEPT
                                    !.updating = TRUE, !.raised = c.raised,
                                    !.update = [failed_reqs |-> {}, called |-> TRUE, c |-> c,
                                                l |-> Started(c.commit, c.files), commit |-> cmt2,
                                                files |-> c.files, saved |-> saved,
                                                raised |-> c.raised]]

\* `[p]cog install <repo> <cogs>`
CogInstall ==
    /\ ops < MaxOps
    /\ \E repo \in repos, cog_names \in SUBSET CogNames :
         cog_names # {} /\ CogInstallRev("install", repo, FALSE, commit[repo], cog_names)
    /\ ops' = ops + 1
    /\ UNCHANGED <<tasks, startup>>
    /\ UNCHANGED <<repos, branch>>

\* `[p]cog installversion <repo> <rev> <cogs>`
CogInstallVersion ==
    /\ ops < MaxOps
    /\ \E repo \in repos :
         \/ /\ MaxFaults > 0    \* get_full_sha1 raises
            /\ \E e \in RevisionErrors :
                 result' = [Result("installversion") EXCEPT
                               !.rev_error = e.error, !.candidates = e.candidates,
                               !.message = revision_error_message(e)]
            /\ UNCHANGED <<installed_cogs, installed_libraries, install_path, commit>>
         \/ \E rev \in Commits, cog_names \in SUBSET CogNames :
              cog_names # {} /\ CogInstallRev("installversion", repo, TRUE, rev, cog_names)
    /\ ops' = ops + 1
    /\ UNCHANGED <<tasks, startup>>
    /\ UNCHANGED <<repos, branch>>

----------------------------------------------------------------------------
(* uninstall, pin, unpin *)

\* `[p]cog uninstall <cogs>`
CogUninstall ==
    /\ ops < MaxOps
    /\ \E cogs \in SUBSET installed_cogs :
         /\ cogs # {}
         /\ \E s \in {remove_from_installed(installed_cogs, installed_libraries, cogs)} :
            \* poss_installed_path.exists()
            \E found \in {{c.name : c \in {x \in cogs : \E f \in install_path : f[1] = x.name}}} :
               /\ installed_cogs' = s.cogs
               /\ installed_libraries' = s.libraries
               /\ install_path' = {f \in install_path : f[1] \notin found}
               /\ result' = [Result("uninstall") EXCEPT
                                !.checked = cogs,
                                !.uninstalled_cogs = found,
                                !.failed_cogs = {c.name : c \in cogs} \ found]
    /\ ops' = ops + 1
    /\ UNCHANGED <<tasks, startup>>
    /\ UNCHANGED <<repos, commit, branch>>

\* set_pinned that writes every given record, also the ones that have the flag
SetPinnedWithoutSkip(cogs, to) == {[c EXCEPT !.pinned = to] : c \in cogs}

\* set_pinned that builds the record anew and loses its commit
SetPinnedLosingCommit(cogs, to) ==
    {InstalledModule(c.repo_name, c.name, NoCommit, to) : c \in {x \in cogs : x.pinned # to}}

\* the loop of _cog_pin / _cog_unpin: the records whose flag changes, flag set
set_pinned(cogs, to) == {[c EXCEPT !.pinned = to] : c \in {x \in cogs : x.pinned # to}}

\* `[p]cog pin <cogs>` (to = TRUE) and `[p]cog unpin <cogs>` (to = FALSE)
SetPinned(op, to) ==
    /\ ops < MaxOps
    /\ \E cogs \in SUBSET installed_cogs :
         /\ cogs # {}
         /\ LET pinned == set_pinned(cogs, to)
                s == save_to_installed(installed_cogs, installed_libraries, pinned)
            IN /\ installed_cogs' = s.cogs
               /\ installed_libraries' = s.libraries
               \* "Pinned {cog}".format(cognames[0]) raises KeyError once the records are saved
               /\ result' = [Result(op) EXCEPT !.checked = cogs,
                                               !.update = [NoUpdate EXCEPT !.saved = pinned],
                                               !.raised = (Cardinality(pinned) = 1)]
    /\ ops' = ops + 1
    /\ UNCHANGED <<tasks, startup>>
    /\ UNCHANGED <<repos, commit, branch, install_path>>

CogPin == SetPinned("pin", TRUE)

CogUnpin == SetPinned("unpin", FALSE)

----------------------------------------------------------------------------
(* repo update, repo delete *)

\* `[p]repo update [repos]`
RepoUpdate ==
    /\ ops < MaxOps
    /\ \E rs \in SUBSET repos :
       LET targets == IF rs = {} THEN repos ELSE rs IN
       \E failed \in SubsetsUpTo(targets, MaxFaults) :
       \E heads \in HeadsFor(targets \ failed) :
         /\ commit' = Fetched(commit, targets \ failed, heads)
         /\ branch' = Fetched(branch, targets \ failed, heads)
         /\ result' = [Result("repo update") EXCEPT !.failed_repos = failed]
    /\ ops' = ops + 1
    /\ UNCHANGED <<tasks, startup>>
    /\ UNCHANGED <<installed_cogs, installed_libraries, install_path, repos>>

\* `[p]repo delete <repo>`
RepoDel ==
    /\ ops < MaxOps
    /\ \E repo \in repos :
         /\ repos' = repos \ {repo}
         /\ result' = Result("repo delete")
    /\ ops' = ops + 1
    /\ UNCHANGED <<tasks, startup>>
    /\ UNCHANGED <<installed_cogs, installed_libraries, install_path, commit, branch>>

----------------------------------------------------------------------------
(* The state after initialize(): config holds the records of earlier        *)
(* sessions, among them the ones _schema_0_to_1 migrated, which carry no     *)
(* commit; the working copies are on their branch.                           *)

\* the records config.installed_cogs can hold when the cog is loaded
PersistedCogs ==
    {InstalledModule(k[1], k[2], c, p) : k \in CogKeys, c \in {NoCommit, 1}, p \in BOOLEAN}

PersistedLibraries ==
    {InstalledModule(k[1], k[2], 1, FALSE) : k \in AllKeys \ CogKeys}

\* one record per key
UniqueKeys(S) == \A x, y \in S : Key(x) = Key(y) => x = y

Init ==
    /\ installed_cogs \in {S \in SUBSET PersistedCogs : UniqueKeys(S)}
    /\ installed_libraries \in {S \in SUBSET PersistedLibraries : UniqueKeys(S)}
    /\ commit = [r \in AllRepos |-> 1]
    /\ branch = commit
    /\ repos = AllRepos
    /\ install_path = {<<c.name, c.commit>> : c \in installed_cogs}
    /\ ops = 0
    /\ Initialized
    /\ tasks = <<>>
    /\ result = Result("initialize")

Next ==
    \/ CogInstall
    \/ CogInstallVersion
    \/ CogUninstall
    \/ CogPin
    \/ CogUnpin
    \/ CogCheckForUpdates
    \/ CogUpdate
    \/ CogUpdateAllFromRepos
    \/ CogUpdateToVersion
    \/ RepoUpdate
    \/ RepoDel

Spec == Init /\ [][Next]_vars

\* The state after initialize() of a bot some of whose repositories were
\* deleted in an earlier session, which leaves their records orphaned, and
\* some of whose cog folders were removed by hand
InitOrphaned ==
    /\ installed_cogs \in {S \in SUBSET PersistedCogs : UniqueKeys(S)}
    /\ installed_libraries \in {S \in SUBSET PersistedLibraries : UniqueKeys(S)}
    /\ commit = [r \in AllRepos |-> 1]
    /\ branch = commit
    /\ repos \in (SUBSET AllRepos) \ {AllRepos}
    /\ \E missing \in SubsetsUpTo(installed_cogs, MaxMissing) :
          install_path = {<<c.name, c.commit>> : c \in installed_cogs \ missing}
    /\ ops = 0
    /\ Initialized
    /\ tasks = <<>>
    /\ result = Result("initialize")

SpecOrphaned == InitOrphaned /\ [][Next]_vars

----------------------------------------------------------------------------
(* _filter_incorrect_cogs taken by itself: any list of at most MaxCogs cogs  *)
(* whose version bounds lie around the versions of the running bot           *)

PythonVersions == {<<3, 8, 0>>, <<3, 8, 1>>, <<3, 8, 2>>}

BotVersions == {<<0, 0, 0>>, <<3, 2, 9>>, <<3, 3, 0>>, <<3, 3, 1>>}

\* the i-th cog of a list, named after its place
FilterCogs(i) ==
    {[name |-> IF i = 1 THEN "a" ELSE IF i = 2 THEN "b" ELSE "d",
      min_python_version |-> py, min_bot_version |-> min, max_bot_version |-> max] :
        py \in PythonVersions, min \in BotVersions, max \in BotVersions}

FilterInputs ==
    UNION {{s \in [1..n -> UNION {FilterCogs(i) : i \in 1..n}] :
                \A i \in 1..n : s[i] \in FilterCogs(i)} : n \in 1..MaxCogs}

InitFilter ==
    /\ installed_cogs = {}
    /\ installed_libraries = {}
    /\ commit = [r \in AllRepos |-> 1]
    /\ branch = commit
    /\ repos = AllRepos
    /\ install_path = {}
    /\ ops = 0
    /\ Initialized
    /\ tasks = <<>>
    /\ result \in {[op |-> "cogs", cogs |-> s] : s \in FilterInputs}

\* the call _filter_incorrect_cogs(cogs)
FilterCall ==
    /\ result.op = "cogs"
    /\ \E f \in {FilterIncorrectCogs(result.cogs)} :
         result' = [op |-> "_filter_incorrect_cogs", cogs |-> result.cogs,
                    raised |-> f.raised, correct_cogs |-> f.correct_cogs,
                    outdated_python_version |-> f.outdated_python_version,
                    outdated_bot_version |-> f.outdated_bot_version]
    /\ UNCHANGED <<installed_cogs, installed_libraries, commit, branch, repos, install_path, ops,
                   tasks, startup>>

NextFilter == FilterCall

SpecFilter == InitFilter /\ [][NextFilter]_vars

----------------------------------------------------------------------------
(* _save_to_installed and _remove_from_installed taken by themselves: one    *)
(* call with any list of at most MaxModules records on any persisted map     *)

\* the lists of records a call can be given; a list may name a key twice
ModuleLists ==
    UNION {[1..n -> PersistedCogs \cup PersistedLibraries] : n \in 1..MaxModules}

RECURSIVE SaveLoop(_, _, _, _)
\* `for module in modules:` of _save_to_installed, from the i-th module on
SaveLoop(cogs, libraries, modules, i) ==
    IF i > Len(modules) THEN [cogs |-> cogs, libraries |-> libraries]
    ELSE LET s == save_to_installed(cogs, libraries, {modules[i]})
         IN SaveLoop(s.cogs, s.libraries, modules, i + 1)

RECURSIVE RemoveLoop(_, _, _, _)
\* `for module in modules:` of _remove_from_installed, from the i-th module on
RemoveLoop(cogs, libraries, modules, i) ==
    IF i > Len(modules) THEN [cogs |-> cogs, libraries |-> libraries]
    ELSE LET s == remove_from_installed(cogs, libraries, {modules[i]})
         IN RemoveLoop(s.cogs, s.libraries, modules, i + 1)

InitInstalled ==
    /\ installed_cogs \in {S \in SUBSET PersistedCogs : UniqueKeys(S)}
    /\ installed_libraries \in {S \in SUBSET PersistedLibraries : UniqueKeys(S)}
    /\ commit = [r \in AllRepos |-> 1]
    /\ branch = commit
    /\ repos = AllRepos
    /\ install_path = {}
    /\ ops = 0
    /\ Initialized
    /\ tasks = <<>>
    /\ result = [op |-> "config"]

\* the call _save_to_installed(modules)
SaveToInstalled ==
    /\ ops < MaxOps
    /\ \E modules \in ModuleLists :
         \E s \in {SaveLoop(installed_cogs, installed_libraries, modules, 1)} :
            /\ installed_cogs' = s.cogs
            /\ installed_libraries' = s.libraries
            /\ result' = [op |-> "_save_to_installed", modules |-> modules,
                          before_cogs |-> installed_cogs,
                          before_libs |-> installed_libraries]
    /\ ops' = ops + 1
    /\ UNCHANGED <<tasks, startup>>
    /\ UNCHANGED <<commit, branch, repos, install_path>>

\* the call _remove_from_installed(modules)
RemoveFromInstalled ==
    /\ ops < MaxOps
    /\ \E modules \in ModuleLists :
         \E s \in {RemoveLoop(installed_cogs, installed_libraries, modules, 1)} :
            /\ installed_cogs' = s.cogs
            /\ installed_libraries' = s.libraries
            /\ result' = [op |-> "_remove_from_installed", modules |-> modules,
                          before_cogs |-> installed_cogs,
                          before_libs |-> installed_libraries]
    /\ ops' = ops + 1
    /\ UNCHANGED <<tasks, startup>>
    /\ UNCHANGED <<commit, branch, repos, install_path>>

NextInstalled == SaveToInstalled \/ RemoveFromInstalled

SpecInstalled == InitInstalled /\ [][NextInstalled]_vars

----------------------------------------------------------------------------
(* updatetoversion taken by itself on a bot whose repositories are at their  *)
(* newest commit and whose cogs were installed at any commit of the history, *)
(* so that the revision asked for can be older than a recorded commit        *)

\* the records of cogs installed at any commit of the history
RecordedCogs ==
    {InstalledModule(k[1], k[2], c, p) :
        k \in CogKeys, c \in {NoCommit} \cup 1..MaxCommit, p \in BOOLEAN}

InitRevisions ==
    /\ installed_cogs \in {S \in SUBSET RecordedCogs : UniqueKeys(S)}
    /\ installed_libraries \in {S \in SUBSET PersistedLibraries : UniqueKeys(S)}
    /\ commit = [r \in AllRepos |-> MaxCommit]
    /\ branch = commit
    /\ repos = AllRepos
    /\ install_path = {<<c.name, c.commit>> : c \in installed_cogs}
    /\ ops = 0
    /\ Initialized
    /\ tasks = <<>>
    /\ result = Result("initialize")

NextRevisions == CogUpdateToVersion

SpecRevisions == InitRevisions /\ [][NextRevisions]_vars

----------------------------------------------------------------------------
(* Concurrent install requests.  Each command is a task of the bot's event   *)
(* loop; a task runs until its next await, where any other task can run.     *)
(* MaxTasks requests of `cog install` / `cog installversion` are in flight,  *)
(* with no cog installed before and every copy succeeding.                   *)

\* the requests: a repository, cog names of it and, for installversion, a revision
InstallRequests ==
    {[op |-> IF rev = NoCommit THEN "install" ELSE "installversion",
      repo |-> r, rev |-> rev, cog_names |-> names, pc |-> IF rev = NoCommit THEN "filter" ELSE "enter",
      cogs |-> {}, steps |-> <<>>, at |-> 1, installed |-> {}, failed |-> {}, copied |-> {}] :
        r \in AllRepos, rev \in {NoCommit} \cup Commits,
        names \in (SUBSET CogNames) \ {{}}}

InitInstalls ==
    /\ installed_cogs = {}
    /\ installed_libraries = {}
    /\ commit = [r \in AllRepos |-> 1]
    /\ branch = commit
    /\ repos = AllRepos
    /\ install_path = {}
    /\ ops = 0
    /\ Initialized
    /\ result = Result("initialize")
    /\ tasks \in [1..MaxTasks -> {q \in InstallRequests : q.cog_names \subseteq available_cogs(q.repo)}]

\* __aenter__ of `async with repo.checkout(commit, exit_to_rev=repo.branch)`
EnterCheckout(i) ==
    /\ tasks[i].pc = "enter"
    /\ commit' = checkout(commit, tasks[i].repo, tasks[i].rev)
    /\ tasks' = [tasks EXCEPT ![i].pc = "filter"]
    /\ UNCHANGED <<startup, installed_cogs, installed_libraries, branch, repos, install_path,
                   result, ops>>

\* _filter_incorrect_cogs_by_names and _install_requirements, up to the call
\* of _install_cogs
FilterByNames(i) ==
    /\ tasks[i].pc = "filter"
    /\ \E cogs \in {filter_incorrect_cogs_by_names(tasks[i].repo, tasks[i].cog_names, commit, {})} :
         tasks' = [tasks EXCEPT ![i].cogs = cogs,
                                ![i].pc = IF cogs = {} THEN "exit" ELSE "install_cogs"]
    /\ UNCHANGED <<startup, installed_cogs, installed_libraries, commit, branch, repos, install_path,
                   result, ops>>

\* _install_cogs from its call to its first await: the groups are built and
\* exit_to_commit = repo.commit is read
StartInstallCogs(i) ==
    /\ tasks[i].pc = "install_cogs"
    /\ tasks' = [tasks EXCEPT ![i].steps = InstallCogsSteps(tasks[i].cogs, commit),
                              ![i].at = 1, ![i].pc = "await"]
    /\ UNCHANGED <<startup, installed_cogs, installed_libraries, commit, branch, repos, install_path,
                   result, ops>>

\* one await of _install_cogs: a checkout or a copy_to
AwaitInstallCogs(i) ==
    /\ tasks[i].pc = "await"
    /\ \E st \in {Await(tasks[i].steps[tasks[i].at], {},
                        [commit |-> commit, files |-> install_path,
                         installed |-> tasks[i].installed, failed |-> tasks[i].failed,
                         copied |-> tasks[i].copied, raised |-> FALSE])} :
         /\ commit' = st.commit
         /\ install_path' = st.files
         /\ tasks' = [tasks EXCEPT ![i].installed = st.installed, ![i].failed = st.failed,
                                   ![i].copied = st.copied, ![i].at = @ + 1,
                                   ![i].pc = IF tasks[i].at = Len(tasks[i].steps)
                                             THEN "exit" ELSE "await"]
    /\ UNCHANGED <<startup, installed_cogs, installed_libraries, branch, repos, result, ops>>

\* __aexit__ of the checkout, install_libraries and _save_to_installed
ExitCheckout(i) ==
    /\ tasks[i].pc = "exit"
    /\ \E cmt \in {IF tasks[i].op = "installversion"
                   THEN checkout(commit, tasks[i].repo, branch[tasks[i].repo]) ELSE commit} :
       \E saved \in {IF tasks[i].cogs = {} THEN {}
                     ELSE pin_installed(tasks[i].installed, tasks[i].op = "installversion")
                          \cup install_libraries(tasks[i].repo, cmt, {})} :
       \E s \in {save_to_installed(installed_cogs, installed_libraries, saved)} :
         /\ commit' = cmt
         /\ installed_cogs' = s.cogs
         /\ installed_libraries' = s.libraries
    /\ tasks' = [tasks EXCEPT ![i].pc = "done"]
    /\ UNCHANGED <<startup, branch, repos, install_path, result, ops>>

NextInstalls ==
    \E i \in 1..MaxTasks :
        \/ EnterCheckout(i)
        \/ FilterByNames(i)
        \/ StartInstallCogs(i)
        \/ AwaitInstallCogs(i)
        \/ ExitCheckout(i)

SpecInstalls == InitInstalls /\ [][NextInstalls]_vars

----------------------------------------------------------------------------
(* Pin, unpin and checkforupdates in flight together.  A pin or unpin gets   *)
(* the record its converter read before the command body runs; a check       *)
(* reads the installed cogs, awaits the git queries and then saves the       *)
(* records it fast-forwarded.                                                *)

\* the requests: pin or unpin of one cog by name, or checkforupdates
PinRequests ==
    {[op |-> o, name |-> n, pc |-> "convert", cogs |-> {}, saved |-> {}] :
        o \in {"pin", "unpin"}, n \in CogNames}
    \cup {[op |-> "checkforupdates", name |-> "", pc |-> "update_repos", cogs |-> {},
           saved |-> {}]}

InitPins ==
    /\ installed_cogs \in {S \in SUBSET PersistedCogs : UniqueKeys(S)}
    /\ installed_libraries = {}
    /\ commit = [r \in AllRepos |-> 1]
    /\ branch = commit
    /\ repos = AllRepos
    /\ install_path = {<<c.name, c.commit>> : c \in installed_cogs}
    /\ ops = 0
    /\ Initialized
    /\ result = Result("initialize")
    /\ tasks \in [1..MaxTasks -> PinRequests]

\* the InstalledCog converter of the argument: the record of that name as
\* installed_cogs() returns it now; no such record ends the command
ConvertInstalledCog(i) ==
    /\ tasks[i].pc = "convert"
    /\ \E cogs \in {{c \in installed_cogs : c.name = tasks[i].name}} :
         tasks' = [tasks EXCEPT ![i].cogs = cogs,
                                ![i].pc = IF cogs = {} THEN "done" ELSE "body"]
    /\ UNCHANGED <<startup, installed_cogs, installed_libraries, commit, branch, repos, install_path,
                   result, ops>>

\* the body of _cog_pin / _cog_unpin: the records whose flag changes are
\* saved as they were read
PinBody(i) ==
    /\ tasks[i].pc = "body"
    /\ \E to \in {tasks[i].op = "pin"} :
       \E pinned \in {{[c EXCEPT !.pinned = to] : c \in {x \in tasks[i].cogs : x.pinned # to}}} :
       \E s \in {save_to_installed(installed_cogs, installed_libraries, pinned)} :
         /\ installed_cogs' = s.cogs
         /\ installed_libraries' = s.libraries
         /\ tasks' = [tasks EXCEPT ![i].saved = pinned, ![i].pc = "done"]
    /\ UNCHANGED <<startup, commit, branch, repos, install_path, result, ops>>

\* _get_cogs_to_check of checkforupdates: update_repos()
UpdateRepos(i) ==
    /\ tasks[i].pc = "update_repos"
    /\ \E heads \in HeadsFor(repos) :
         /\ commit' = Fetched(commit, repos, heads)
         /\ branch' = Fetched(branch, repos, heads)
    /\ tasks' = [tasks EXCEPT ![i].pc = "installed_cogs"]
    /\ UNCHANGED <<startup, installed_cogs, installed_libraries, repos, install_path, result, ops>>

\* _get_cogs_to_check of checkforupdates: the read of installed_cogs()
ReadInstalledCogs(i) ==
    /\ tasks[i].pc = "installed_cogs"
    /\ tasks' = [tasks EXCEPT ![i].cogs = get_cogs_to_check({}, {}, {}),
                              ![i].pc = "available_updates"]
    /\ UNCHANGED <<startup, installed_cogs, installed_libraries, commit, branch, repos, install_path,
                   result, ops>>

\* _available_updates(cogs_to_check) after its git queries: the save of
\* update_commits
SaveUpdateCommits(i) ==
    /\ tasks[i].pc = "available_updates"
    /\ \E modified \in SUBSET DiffCandidates(tasks[i].cogs, installed_libraries, commit) :
       \E res \in {available_updates(tasks[i].cogs, installed_libraries, commit, modified, {})} :
       \E s \in {save_to_installed(installed_cogs, installed_libraries, res.update_commits)} :
         /\ installed_cogs' = s.cogs
         /\ installed_libraries' = s.libraries
         /\ tasks' = [tasks EXCEPT ![i].saved = res.update_commits, ![i].pc = "done"]
    /\ UNCHANGED <<startup, commit, branch, repos, install_path, result, ops>>

NextPins ==
    \E i \in 1..MaxTasks :
        \/ ConvertInstalledCog(i)
        \/ PinBody(i)
        \/ UpdateRepos(i)
        \/ ReadInstalledCogs(i)
        \/ SaveUpdateCommits(i)

SpecPins == InitPins /\ [][NextPins]_vars

----------------------------------------------------------------------------
(* _install_cogs taken by itself: any cogs of the repositories, each at any  *)
(* commit, with the working copies at any ref and some copies failing        *)

\* the lists of cogs a call can be given: at most one Installable per cog
InstallCogsInputs ==
    {S \in SUBSET {Installable(k[1], k[2], c, {}) : k \in CogKeys, c \in Commits} :
        S # {} /\ UniqueKeys(S)}

InitInstallCogs ==
    /\ installed_cogs = {}
    /\ installed_libraries = {}
    /\ commit \in [AllRepos -> 1..MaxCommit]
    /\ branch = commit
    /\ repos = AllRepos
    /\ install_path = {}
    /\ ops = 0
    /\ Initialized
    /\ tasks = <<>>
    /\ result \in {[Result("cogs") EXCEPT !.requested = S, !.at = commit] : S \in InstallCogsInputs}

\* the call _install_cogs(cogs)
InstallCogsCall ==
    /\ result.op = "cogs"
    /\ \E irr \in SubsetsUpTo({<<"failed_copy", Key(c)>> : c \in result.requested}, MaxFaults) :
       \E c \in {install_cogs(result.requested, commit, install_path, irr, 0)} :
         /\ commit' = c.commit
         /\ install_path' = c.files
         /\ result' = [result EXCEPT
                          !.op = "_install_cogs", !.irr = irr, !.updating = TRUE,
                          !.update = [NoUpdate EXCEPT !.called = TRUE, !.c = c,
                                                      !.commit = c.commit, !.files = c.files]]
    /\ UNCHANGED <<installed_cogs, installed_libraries, branch, repos, ops, tasks, startup>>

SpecInstallCogs == InitInstallCogs /\ [][InstallCogsCall]_vars

----------------------------------------------------------------------------
(* _install_requirements taken by itself: any list of at most MaxCogs cogs,  *)
(* each declaring at most MaxReqs requirements, and any list of known        *)
(* repositories; a cog comes from a known repository, so the list of         *)
(* repositories is empty only when the list of cogs is.                      *)

AllRequirements == {"qa", "qd", "qx"}

\* the lists of cogs, each with its Installable.requirements tuple
RequirementCogs ==
    LET tuples == UNION {[1..n -> AllRequirements] : n \in 0..MaxReqs}
    IN UNION {[1..n -> [requirements : tuples]] : n \in 0..MaxCogs}

\* {requirement for cog in cogs for requirement in cog.requirements}
requirements_of(cogs) ==
    UNION {{cogs[j].requirements[i] : i \in DOMAIN cogs[j].requirements} : j \in DOMAIN cogs}

\* the orders in which iterating over the set S may yield its elements
Enumerations(S) ==
    {s \in [1..Cardinality(S) -> S] : \A i, j \in DOMAIN s : s[i] = s[j] => i = j}

\* a distribution that hands every requirement to the first repository
DistributeToFirst(order, n) == [j \in 1..n |-> IF j = 1 THEN order ELSE <<>>]

RECURSIVE DistributeLoop(_, _, _)
\* for i, req in enumerate(requirements), from the i-th on (i counts from 1 here)
DistributeLoop(lists, order, i) ==
    IF i > Len(order) THEN lists
    ELSE LET repo_index == ((i - 1) % Len(lists)) + 1
         IN DistributeLoop([lists EXCEPT ![repo_index] = Append(@, order[i])], order, i + 1)

\* the list of requirements of each of the n repositories after the loop
distribute(order, n) == DistributeLoop([j \in 1..n |-> <<>>], order, 1)

\* has_reqs
has_reqs(repo_list, lists) ==
    SelectSeq([j \in DOMAIN repo_list |-> [repo |-> repo_list[j], reqs |-> lists[j]]],
              LAMBDA item : Len(item.reqs) > 0)

RECURSIVE InstallAttempts(_)
\* the calls repo.install_raw_requirements([req], LIB_PATH) in the order made
InstallAttempts(items) ==
    IF items = <<>> THEN <<>>
    ELSE [k \in DOMAIN Head(items).reqs |-> [repo |-> Head(items).repo, req |-> Head(items).reqs[k]]]
         \o InstallAttempts(Tail(items))

\* failed_reqs when the k-th call answers ok[k]
failed_reqs_of(attempts, ok) ==
    LET failing == SelectSeq([k \in DOMAIN attempts |-> k], LAMBDA k : ~ok[k])
    IN [i \in DOMAIN failing |-> attempts[failing[i]].req]

InitRequirements ==
    /\ installed_cogs = {}
    /\ installed_libraries = {}
    /\ commit = [r \in AllRepos |-> 1]
    /\ branch = commit
    /\ repos \in SUBSET AllRepos
    /\ install_path = {}
    /\ ops = 0
    /\ Initialized
    /\ result = Result("requirements")
    /\ \E cogs \in RequirementCogs, repo_list \in Enumerations(repos) :
          /\ repo_list = <<>> => cogs = <<>>
          /\ tasks = <<[pc |-> "call", cogs |-> cogs, repos |-> repo_list, order |-> <<>>,
                        lists |-> <<>>, attempts |-> <<>>, ok |-> <<>>, failed_reqs |-> <<>>]>>

\* the call _install_requirements(cogs)
InstallRequirements ==
    /\ tasks[1].pc = "call"
    /\ \E order \in Enumerations(requirements_of(tasks[1].cogs)) :
       \E lists \in {distribute(order, Len(tasks[1].repos))} :
       \E attempts \in {InstallAttempts(has_reqs(tasks[1].repos, lists))} :
       \E ok \in [DOMAIN attempts -> BOOLEAN] :
          tasks' = <<[tasks[1] EXCEPT !.pc = "returned", !.order = order, !.lists = lists,
                                      !.attempts = attempts, !.ok = ok,
                                      !.failed_reqs = failed_reqs_of(attempts, ok)]>>
    /\ UNCHANGED <<startup, installed_cogs, installed_libraries, commit, branch, repos, install_path,
                   result, ops>>

SpecRequirements == InitRequirements /\ [][InstallRequirements]_vars

----------------------------------------------------------------------------
(* reinstallreqs taken by itself: any installed cogs, any repositories       *)
(* removed, any shared libraries published, any of them failing to install   *)

LibraryNames == {"lib", "util"}

\* Repo.install_libraries(target_dir, req_target_dir): every shared library
\* the repository publishes, split by whether its copy succeeded
InstallLibrariesResult(available, failing) ==
    [installed_libs |-> available \ failing, failed_libs |-> available \cap failing]

RECURSIVE ReinstallLoop(_, _, _, _)
\* for repo in repos, over the repositories still in `order`; locals is
\* all_failed_libs and the binding of failed_libs left by the last pass
ReinstallLoop(order, available, failing, locals) ==
    IF order = <<>> THEN locals
    ELSE LET r == InstallLibrariesResult({<<Head(order), n>> : n \in available[Head(order)]}, failing)
         IN ReinstallLoop(Tail(order), available, failing,
                          [all_failed_libs |-> locals.all_failed_libs \cup r.failed_libs,
                           failed_libs |-> r.failed_libs])

InitReinstall ==
    /\ installed_cogs \in SUBSET {InstalledModule(k[1], k[2], 1, FALSE) : k \in CogKeys}
    /\ installed_libraries = {}
    /\ commit = [r \in AllRepos |-> 1]
    /\ branch = commit
    /\ repos \in SUBSET AllRepos
    /\ install_path = {<<c.name, c.commit>> : c \in installed_cogs}
    /\ ops = 0
    /\ Initialized
    /\ result = Result("reinstallreqs")
    /\ \E available \in [AllRepos -> SUBSET LibraryNames] :
          tasks = <<[pc |-> "call", available |-> available, order |-> <<>>, failed_reqs |-> {},
                     all_failed_libs |-> {}, failed_libs |-> {}, libnames |-> {},
                     errors |-> FALSE]>>

\* [p]cog reinstallreqs
CogReinstallReqs ==
    /\ tasks[1].pc = "call"
    /\ \E cogs \in {{c \in installed_cogs : HasRepo(c)}} :
       \E order \in Enumerations({c.repo_name : c \in cogs}) :
       \E irr \in SubsetsUpTo({<<"failed_req", q>> : q \in UNION {Requirements(c.name) : c \in cogs}},
                              MaxFaults) :
       \E failing \in SUBSET (AllRepos \X LibraryNames) :
       \E failed_reqs \in {install_requirements(cogs, irr)} :
       \E locals \in {ReinstallLoop(order, tasks[1].available, failing,
                                    [all_failed_libs |-> {}, failed_libs |-> {}])} :
          tasks' = <<[tasks[1] EXCEPT
                        !.pc = "returned", !.order = order, !.failed_reqs = failed_reqs,
                        !.all_failed_libs = locals.all_failed_libs,
                        !.failed_libs = locals.failed_libs,
                        !.libnames = IF locals.all_failed_libs # {}
                                     THEN {lib[2] : lib \in locals.failed_libs} ELSE {},
                        !.errors = (failed_reqs # {} \/ locals.all_failed_libs # {})]>>
    /\ UNCHANGED <<startup, installed_cogs, installed_libraries, commit, branch, repos, install_path,
                   result, ops>>

SpecReinstall == InitReinstall /\ [][CogReinstallReqs]_vars

----------------------------------------------------------------------------
(* install and uninstall where two repositories publish a cog of the same    *)
(* name; the installed cogs bear distinct names when the command starts      *)

\* repo.available_cogs by name
PublishedCogs(r) == IF r = "r1" THEN {"a", "b", "d"} ELSE {"a", "d"}

\* `cog in installed_cogs`: Installable.__eq__ against the installed records
SameModule(repo, cog_name, m) == m.repo_name = repo /\ m.name = cog_name

\* a lookup by name that finds nothing
NameNeverUsed(installed, cog_name) == FALSE

\* discord.utils.get(installed_cogs, name=cog.name)
name_used(installed, cog_name) == \E m \in installed : m.name = cog_name

\* the four lists the loop of _filter_incorrect_cogs_by_names builds
names_lists(repo, cog_names, cmt, irr) ==
    LET found == cog_names \cap PublishedCogs(repo)
        installed_here == {n \in found : \E m \in installed_cogs : SameModule(repo, n, m)}
        used == {n \in found \ installed_here : name_used(installed_cogs, n)}
    IN [unavailable_cogs |-> cog_names \ found,
        already_installed |-> installed_here,
        name_already_used |-> used,
        cogs |-> {Installable(repo, n, cmt[repo], irr) : n \in (found \ installed_here) \ used}]

InitNames ==
    /\ \E bearer \in [PublishedCogs("r1") \cup PublishedCogs("r2") -> {"none"} \cup AllRepos] :
       \E c \in {NoCommit, 1}, p \in BOOLEAN :
          /\ \A n \in DOMAIN bearer : bearer[n] \in AllRepos => n \in PublishedCogs(bearer[n])
          /\ installed_cogs = {InstalledModule(bearer[n], n, c, p) :
                                  n \in {x \in DOMAIN bearer : bearer[x] \in AllRepos}}
    /\ installed_libraries \in {S \in SUBSET PersistedLibraries : UniqueKeys(S)}
    /\ commit = [r \in AllRepos |-> 1]
    /\ branch = commit
    /\ repos = AllRepos
    /\ install_path = {<<c.name, c.commit>> : c \in installed_cogs}
    /\ ops = 0
    /\ Initialized
    /\ tasks = <<>>
    /\ result = Result("initialize")

\* `[p]cog install <repo> <cogs>` and `[p]cog installversion <repo> <rev> <cogs>`
\* with rev the commit the repository is at
CogInstallNamed ==
    /\ ops < MaxOps
    /\ \E repo \in repos, rev_given \in BOOLEAN :
       \E cog_names \in SUBSET (PublishedCogs("r1") \cup PublishedCogs("r2")) :
       \E irr \in SubsetsUpTo({<<"failed_copy", <<repo, n>>>> : n \in cog_names}, MaxFaults) :
       \E lists \in {names_lists(repo, cog_names, commit, irr)} :
       \E base \in {[Result(IF rev_given THEN "installversion" ELSE "install") EXCEPT
                        !.cogs_arg = cog_names, !.irr = irr,
                        !.message = {<<"unavailable", lists.unavailable_cogs>>,
                                     <<"already_installed", lists.already_installed>>,
                                     <<"name_already_used", lists.name_already_used>>}]} :
          /\ cog_names # {}
          /\ IF Cardinality(lists.name_already_used) = 1
             \* message += -("Cog with name {cog} is already installed ...") raises TypeError
             THEN /\ result' = [base EXCEPT !.raised = TRUE]
                  /\ UNCHANGED <<installed_cogs, installed_libraries, install_path, commit>>
             ELSE IF lists.cogs = {}
             THEN /\ result' = base
                  /\ UNCHANGED <<installed_cogs, installed_libraries, install_path, commit>>
             ELSE \E c \in {install_cogs(lists.cogs, commit, install_path, irr, 0)} :
                  \E saved \in {pin_installed(c.installed, rev_given)
                                \cup install_libraries(repo, c.commit, irr)} :
                  \E s \in {save_to_installed(installed_cogs, installed_libraries, saved)} :
                     /\ installed_cogs' = s.cogs
                     /\ installed_libraries' = s.libraries
                     /\ install_path' = c.files
                     /\ commit' = c.commit
                     /\ result' = [base EXCEPT
                                      !.requested = lists.cogs, !.updating = TRUE,
                                      !.update = [NoUpdate EXCEPT !.called = TRUE, !.c = c,
                                                     !.commit = c.commit, !.files = c.files,
                                                     !.saved = saved]]
    /\ ops' = ops + 1
    /\ UNCHANGED <<tasks, startup>>
    /\ UNCHANGED <<repos, branch>>

NextNames ==
    \/ CogInstallNamed
    \/ CogUninstall

SpecNames == InitNames /\ [][NextNames]_vars

----------------------------------------------------------------------------
(* Loading the cog: the task create_init_task starts (initialize,            *)
(* _maybe_update_config, _schema_0_to_1), its done callback, cog_unload, and *)
(* the commands invoked meanwhile, each held in cog_before_invoke.  The      *)
(* config is at schema 0 (nothing migrated yet, or a migration interrupted   *)
(* after its write) or at schema 1.                                          *)

\* the raw "installed" lists
LegacyLists ==
    UNION {[1..n -> [repo_name : AllRepos, cog_name : CogNames]] : n \in 0..MaxLegacy}

\* a migration that converts the first entry only
Schema0To1OfFirst(old_conf, new_cog_conf) ==
    Merge(new_cog_conf,
          {InstalledModule(old_conf[i].repo_name, old_conf[i].cog_name, NoCommit, FALSE) :
              i \in DOMAIN old_conf \cap {1}})

\* _schema_0_to_1: new_cog_conf after the loop over old_conf
schema_0_to_1(old_conf, new_cog_conf) ==
    Merge(new_cog_conf,
          {InstalledModule(old_conf[i].repo_name, old_conf[i].cog_name, NoCommit, FALSE) :
              i \in DOMAIN old_conf})

\* a hook that lets every command through
BeforeInvokeProceeds(raised) == "body"

\* cog_before_invoke once _ready.wait() has returned: with _ready_raised it
\* raises CheckFailure, else the command body runs
before_invoke(raised) == IF raised THEN "rejected" ELSE "body"

\* the task has not finished: it is suspended at the await its pc names
Pending == init_task.pc \in {"repo_manager", "schema_version", "get_raw", "clear_raw", "set"}

InitGate ==
    /\ schema_version \in {0, 1}
    /\ installed_raw \in LegacyLists
    /\ installed_cogs \in
          IF schema_version = 0
          THEN {{}, schema_0_to_1(installed_raw, {})}
               \cup (IF installed_raw = <<>> THEN {schema_0_to_1(l, {}) : l \in LegacyLists} ELSE {})
          ELSE SUBSET {InstalledModule(k[1], k[2], 1, FALSE) : k \in CogKeys}
    /\ installed_libraries = {}
    /\ commit = [r \in AllRepos |-> 1]
    /\ branch = commit
    /\ repos = AllRepos
    /\ install_path = {<<c.name, c.commit>> : c \in installed_cogs}
    /\ ops = 0 /\ tasks = <<>>
    /\ ready = FALSE
    /\ ready_raised = FALSE
    /\ init_task = [pc |-> "repo_manager", callback_ran |-> FALSE, schema_version |-> -1,
                    old_conf |-> <<>>]
    /\ result = Result("load")

\* await self._repo_manager.initialize() returns
RepoManagerInitialize ==
    /\ init_task.pc = "repo_manager"
    /\ init_task' = [init_task EXCEPT !.pc = "schema_version"]
    /\ UNCHANGED <<installed_cogs, installed_libraries, commit, branch, repos, install_path,
                   result, ops, tasks, ready, ready_raised, schema_version, installed_raw>>

\* await self.config.schema_version() returns; when it is not 0 initialize
\* goes on to self._ready.set() and the task finishes
ReadSchemaVersion ==
    /\ init_task.pc = "schema_version"
    /\ init_task' = [init_task EXCEPT !.schema_version = schema_version,
                                      !.pc = IF schema_version = 0 THEN "get_raw" ELSE "finished"]
    /\ ready' = (schema_version # 0 \/ ready)
    /\ UNCHANGED <<installed_cogs, installed_libraries, commit, branch, repos, install_path,
                   result, ops, tasks, ready_raised, schema_version, installed_raw>>

\* _schema_0_to_1 up to the write of installed_cogs; with an empty list it
\* returns and _maybe_update_config goes on to schema_version.set
Schema0To1 ==
    /\ init_task.pc = "get_raw"
    /\ init_task' = [init_task EXCEPT !.old_conf = installed_raw,
                                      !.pc = IF installed_raw = <<>> THEN "set" ELSE "clear_raw"]
    /\ installed_cogs' = IF installed_raw = <<>> THEN installed_cogs
                         ELSE schema_0_to_1(installed_raw, installed_cogs)
    /\ UNCHANGED <<installed_libraries, commit, branch, repos, install_path, result, ops, tasks,
                   ready, ready_raised, schema_version, installed_raw>>

\* await self.config.clear_raw("installed")
ClearRaw ==
    /\ init_task.pc = "clear_raw"
    /\ installed_raw' = <<>>
    /\ init_task' = [init_task EXCEPT !.pc = "set"]
    /\ UNCHANGED <<installed_cogs, installed_libraries, commit, branch, repos, install_path,
                   result, ops, tasks, ready, ready_raised, schema_version>>

\* schema_version += 1; await self.config.schema_version.set(schema_version);
\* then self._ready.set() and the task finishes
SetSchemaVersion ==
    /\ init_task.pc = "set"
    /\ schema_version' = init_task.schema_version + 1
    /\ ready' = TRUE
    /\ init_task' = [init_task EXCEPT !.schema_version = @ + 1, !.pc = "finished"]
    /\ UNCHANGED <<installed_cogs, installed_libraries, commit, branch, repos, install_path,
                   result, ops, tasks, ready_raised, installed_raw>>

\* the await the task is suspended at raises
InitializeRaises ==
    /\ MaxFaults > 0
    /\ Pending
    /\ init_task' = [init_task EXCEPT !.pc = "raised"]
    /\ UNCHANGED <<installed_cogs, installed_libraries, commit, branch, repos, install_path,
                   result, ops, tasks, ready, ready_raised, schema_version, installed_raw>>

\* cog_unload while the task is pending: self._init_task.cancel()
CogUnload ==
    /\ Pending
    /\ init_task' = [init_task EXCEPT !.pc = "cancelled"]
    /\ UNCHANGED <<installed_cogs, installed_libraries, commit, branch, repos, install_path,
                   result, ops, tasks, ready, ready_raised, schema_version, installed_raw>>

\* _done_callback(task): task.exception() returns None for a task that
\* returned, the exception for one that raised, and raises CancelledError
\* for a cancelled one, which ends the callback
DoneCallback ==
    /\ init_task.pc \in {"finished", "raised", "cancelled"}
    /\ ~init_task.callback_ran
    /\ init_task' = [init_task EXCEPT !.callback_ran = TRUE]
    /\ ready_raised' = (init_task.pc = "raised" \/ ready_raised)
    /\ ready' = (init_task.pc = "raised" \/ ready)
    /\ UNCHANGED <<installed_cogs, installed_libraries, commit, branch, repos, install_path,
                   result, ops, tasks, schema_version, installed_raw>>

\* a command of the cog is invoked: cog_before_invoke awaits self._ready.wait()
Invoke ==
    /\ Len(tasks) < MaxTasks
    /\ init_task.pc # "cancelled"
    /\ tasks' = Append(tasks, [pc |-> "wait"])
    /\ UNCHANGED <<installed_cogs, installed_libraries, commit, branch, repos, install_path,
                   result, ops, startup>>

\* self._ready.wait() returns in invocation i
BeforeInvoke(i) ==
    /\ i \in DOMAIN tasks
    /\ tasks[i].pc = "wait"
    /\ ready
    /\ tasks' = [tasks EXCEPT ![i].pc = before_invoke(ready_raised)]
    /\ UNCHANGED <<installed_cogs, installed_libraries, commit, branch, repos, install_path,
                   result, ops, startup>>

NextGate ==
    \/ RepoManagerInitialize
    \/ ReadSchemaVersion
    \/ Schema0To1
    \/ ClearRaw
    \/ SetSchemaVersion
    \/ InitializeRaises
    \/ CogUnload
    \/ DoneCallback
    \/ Invoke
    \/ \E i \in 1..MaxTasks : BeforeInvoke(i)

SpecGate == InitGate /\ [][NextGate]_vars

\* the event loop resumes a task whose await has completed, runs a scheduled
\* callback and wakes the waiters of an event that is set; whether an await
\* raises, the cog is unloaded or a command is invoked is up to the environment
SpecGateFair ==
    /\ SpecGate
    /\ WF_vars(RepoManagerInitialize)
    /\ WF_vars(ReadSchemaVersion)
    /\ WF_vars(Schema0To1)
    /\ WF_vars(ClearRaw)
    /\ WF_vars(SetSchemaVersion)
    /\ WF_vars(DoneCallback)
    /\ \A i \in 1..MaxTasks : WF_vars(BeforeInvoke(i))

----------------------------------------------------------------------------
(* Properties *)

\* the call of _install_cogs of the last command returned
InstallCogsReturned == result.update.called /\ ~result.update.c.raised

\* A and B are cogs of one (repo, commit) group of that call; the copy of A
\* failed and the copy of B succeeded
MixedGroup(A, B) ==
    /\ A \in result.requested /\ B \in result.requested
    /\ A.repo_name = B.repo_name /\ A.commit = B.commit
    /\ Has(result.irr, "failed_copy", Key(A))
    /\ ~Has(result.irr, "failed_copy", Key(B))

\* C1: when _install_cogs returns from a (repo, commit) group in which the copy
\* of A failed and the copy of B succeeded, B is in the installed tuple, A is
\* in the failed tuple and the repository is at the ref it had when the call
\* started.
C1_ModuleAtomicInstall ==
    InstallCogsReturned =>
        \A A, B \in result.requested :
            MixedGroup(A, B) =>
                /\ from_installable(B) \in result.update.c.installed
                /\ A \in result.update.c.failed
                /\ from_installable(A) \notin result.update.c.installed
                /\ B \notin result.update.c.failed
                /\ result.update.c.commit[A.repo_name] = result.at[A.repo_name]

C1_Witness ==
    /\ InstallCogsReturned
    /\ \E A, B \in result.requested : MixedGroup(A, B)

\* C2: on every exit path of _install_cogs and _reinstall_libraries (return,
\* exception, cancellation) the repository is back at the ref it had when the
\* call started.
C2_RefRestoredOnEveryExit ==
    result.update.called =>
        /\ result.update.c.commit = result.at
        /\ (~result.update.c.raised => result.update.l.commit = result.at)

\* the records _available_updates of the last command looked at
Checked == ModulesToCheck(result.checked, result.before_libs) \cup Legacy(result.checked)

\* the maps as _available_updates left them
Resolved == result.resolved_cogs \cup result.resolved_libs

UpdateKeys == {Key(i) : i \in result.resolve.cogs_to_update \cup result.resolve.libraries_to_update}

\* m is recorded at the commit its repository is at
UpToDate(m) == m.commit # NoCommit /\ m.commit = result.at[m.repo_name]

\* C3: a record handed to _available_updates whose commit is known and equals
\* the current commit of its repository is in neither returned set, and its
\* persisted record stays as it was.
C3_UpToDateRecordUntouched ==
    result.resolved =>
        \A m \in Checked :
            UpToDate(m) => Key(m) \notin UpdateKeys /\ m \in Resolved

C3_Witness ==
    /\ result.resolved
    /\ \E m \in Checked : UpToDate(m)
    /\ UpdateKeys # {}

\* the commit of m is a strict ancestor of the commit its repository is at, and
\* the diff between the two does not name its module
Unmodified(m) ==
    /\ m.commit # result.at[m.repo_name]
    /\ is_ancestor(m.commit, result.at[m.repo_name])
    /\ Key(m) \notin result.modified

\* the keys of what the last command installed anew or tried to
Reinstalled ==
    {Key(i) : i \in result.requested}
    \cup {k \in AllKeys : \E x \in result.update.c.copied : x[1] = k[2]}
    \cup {Key(l) : l \in result.update.l.installed \cup result.update.l.failed}

\* C4: a checked record whose commit is a strict ancestor of the repository's
\* commit and whose module the diff does not name gets the repository's commit
\* as its persisted commit, keeps its pinned flag, is in neither returned set
\* and is not reinstalled; _available_updates changes no other record.
C4_FastForwardUnmodified ==
    result.resolved =>
        /\ \A m \in Checked :
              Unmodified(m) =>
                  /\ [m EXCEPT !.commit = result.at[m.repo_name]] \in Resolved
                  /\ Key(m) \notin UpdateKeys
                  /\ Key(m) \notin Reinstalled
        /\ \A x \in result.before_cogs \cup result.before_libs :
              x \in Resolved \/ (x \in Checked /\ Unmodified(x))
        /\ \A x \in Resolved :
              \E y \in result.before_cogs \cup result.before_libs : Key(y) = Key(x)

C4_Witness ==
    /\ result.resolved
    /\ \E m \in Checked : Unmodified(m) /\ m.pinned
    /\ \E m \in Checked : Unmodified(m) /\ ~m.pinned
    /\ UpdateKeys # {}

\* the records of the checked cogs, read again after the resolve
Reread == {x \in result.resolved_cogs : \E c \in result.checked : Key(c) = Key(x)}

\* a second _available_updates on the re-read records, the repositories where
\* they were: whatever the collaborators answer, it returns two empty sets,
\* asks for no diff and leaves the persisted map as it is
SecondResolveQuiet ==
    \A modified \in SUBSET DiffCandidates(Reread, result.resolved_libs, result.at) :
    \A irr \in SubsetsUpTo(UpdateIrrs(Reread, result.resolved_libs, result.at, modified),
                           MaxFaults) :
        LET second == available_updates(Reread, result.resolved_libs, result.at, modified, irr)
        IN /\ second.cogs_to_update = {}
           /\ second.libraries_to_update = {}
           /\ DOMAIN second.diff_calls = {}
           /\ save_to_installed(result.resolved_cogs, result.resolved_libs,
                                second.update_commits)
                = [cogs |-> result.resolved_cogs, libraries |-> result.resolved_libs]

FirstResolveEmpty ==
    result.resolve.cogs_to_update = {} /\ result.resolve.libraries_to_update = {}

\* every checked record has a commit, and every library its repository
\* publishes has a record
KnownAndComplete ==
    /\ Legacy(result.checked) = {}
    /\ MissingLibraries(result.checked, result.before_libs, result.at, {}) = {}

\* C5: when no diff names the module of a checked record, every checked record
\* has a known commit and no library of their repositories lacks a record, two
\* runs of _available_updates in a row return empty sets both times, and the
\* second run asks for no diff and does not change the persisted map.
C5_IdempotentOnKnownRecords ==
    result.resolved /\ result.modified = {} /\ KnownAndComplete =>
        FirstResolveEmpty /\ SecondResolveQuiet

C5_Witness ==
    /\ result.resolved /\ result.modified = {} /\ KnownAndComplete
    /\ \E m \in Checked : Unmodified(m)

\* C5 as the specification states it: no diff naming a checked module is enough
C5_IdempotentWheneverDiffsEmpty ==
    result.resolved /\ result.modified = {} =>
        FirstResolveEmpty /\ SecondResolveQuiet

\* C6: one call of _available_updates asks for the diff of a (repo, old commit)
\* pair at most once, and only for pairs of checked records, however many
\* modules share the pair.
C6_OneDiffPerPair ==
    result.resolved =>
        \A k \in DOMAIN result.resolve.diff_calls :
            /\ result.resolve.diff_calls[k] <= 1
            /\ \E m \in Checked : HashKey(m) = k

C6_Witness ==
    /\ result.resolved
    /\ \E k \in DOMAIN result.resolve.diff_calls :
          Cardinality({m \in Checked : HashKey(m) = k}) >= 2
    /\ Cardinality(DOMAIN result.resolve.diff_calls) >= 2

UpdateOps == {"update", "updateallfromrepos", "updatetoversion"}

\* the repository of record m has moved forward since m was installed
MovedForward(m) ==
    m.commit # result.at[m.repo_name] /\ is_ancestor(m.commit, result.at[m.repo_name])

\* C7: the update commands hand no pinned cog to _available_updates; a pinned
\* cog is not returned as a candidate, not reinstalled, and its record is not
\* overwritten, even when its repository has moved forward.
C7_PinnedCogsFilteredOut ==
    result.op \in UpdateOps =>
        \A c \in result.before_cogs :
            c.pinned =>
                /\ c \notin result.checked
                /\ Key(c) \notin UpdateKeys
                /\ Key(c) \notin Reinstalled
                /\ c \in installed_cogs

C7_Witness ==
    /\ result.op \in UpdateOps
    /\ result.updating
    /\ \E c \in result.pinned_cogs : MovedForward(c)

\* C8: under checkforupdates, update, updateallfromrepos and updatetoversion a
\* pinned record stays pinned and is not reinstalled; update,
\* updateallfromrepos and updatetoversion leave its commit as it is, and
\* checkforupdates changes it only by the fast-forward of a module no diff names.
C8_PinnedChangesOnlyByFastForward ==
    result.op \in UpdateOps \cup {"checkforupdates"} =>
        \A c \in result.before_cogs :
            c.pinned =>
                /\ Key(c) \notin Reinstalled
                /\ \E x \in installed_cogs :
                      /\ Key(x) = Key(c) /\ x.pinned
                      /\ \/ x.commit = c.commit
                         \/ /\ result.op = "checkforupdates"
                            /\ c \in Checked /\ Unmodified(c)
                            /\ x.commit = result.at[c.repo_name]

C8_Witness ==
    /\ result.op = "checkforupdates"
    /\ \E c \in result.before_cogs : c.pinned /\ c \notin installed_cogs
    /\ \E c \in result.before_cogs : c.pinned /\ MovedForward(c) /\ c \in installed_cogs

\* C8 as the specification states it: none of the four commands changes the
\* commit of a pinned record
C8_PinnedCommitFrozen ==
    result.op \in UpdateOps \cup {"checkforupdates"} =>
        \A c \in result.before_cogs :
            c.pinned => \E x \in installed_cogs : Key(x) = Key(c) /\ x.commit = c.commit

\* a and b are unpinned cogs of one repository, both recorded at a commit the
\* repository has moved forward from, and of the modules of that repository
\* the diff names a alone
OnlyFirstModified(a, b) ==
    /\ a \in result.checked /\ b \in result.checked /\ a # b
    /\ a.repo_name = b.repo_name /\ a.commit = b.commit
    /\ ~a.pinned /\ ~b.pinned
    /\ MovedForward(a)
    /\ {k \in result.modified : k[1] = a.repo_name} = {Key(a)}

\* what C9 says of such a and b
UpdatesFirstOnly(a, b) ==
    LET c2 == result.at[a.repo_name]
        new == InstalledModule(a.repo_name, a.name, c2, FALSE)
    IN /\ {Key(i) : i \in {j \in result.resolve.cogs_to_update :
                                 j.repo_name = a.repo_name}} = {Key(a)}
       /\ (new \in result.update.c.installed /\ ~result.update.raised) =>
              /\ new \in installed_cogs
              /\ [b EXCEPT !.commit = c2] \in installed_cogs
              /\ \A x \in result.update.c.copied : x[1] # b.name
              /\ <<a.name, c2>> \in install_path

\* C9: for unpinned cogs a and b of a repository, both recorded at c1, the
\* repository at a descendant c2, the diff naming a alone and a not disabled at
\* c2: the resolve returns a as the only cog of the repository to update, and
\* once a is installed and the result persisted both records are at c2 and b
\* was not copied.
C9_UpdateScenario ==
    result.resolved =>
        \A a, b \in result.checked :
            OnlyFirstModified(a, b) /\ ~Has(result.irr, "disabled", Key(a)) =>
                UpdatesFirstOnly(a, b)

C9_Witness ==
    /\ result.resolved
    /\ \E a, b \in result.checked :
          /\ OnlyFirstModified(a, b) /\ ~Has(result.irr, "disabled", Key(a))
          /\ InstalledModule(a.repo_name, a.name, result.at[a.repo_name], FALSE)
                \in result.update.c.installed
          /\ ~result.update.raised

\* C9 as the specification states it: whatever a is at c2
C9_UpdateScenarioUnconditional ==
    result.resolved =>
        \A a, b \in result.checked : OnlyFirstModified(a, b) => UpdatesFirstOnly(a, b)

\* the requirements whose installation failed in the last command
FailedRequirements == {f[2] : f \in {g \in result.irr : g[1] = "failed_req"}}

\* C10: when a request holds a module A one of whose requirements fails to
\* install and a module B whose requirements all install, B is copied and
\* recorded as installed.
C10_RequirementFailureIsolated ==
    \A A, B \in result.requested :
        (/\ Requirements(A.name) \cap FailedRequirements # {}
         /\ Requirements(B.name) \cap FailedRequirements = {}) =>
            /\ \E x \in result.update.c.copied : x[1] = B.name
            /\ \E x \in installed_cogs : Key(x) = Key(B) /\ x.commit = B.commit

\* A is a cog of the request one of whose requirements failed to install
RequirementFailed(A) == Requirements(A.name) \cap FailedRequirements # {}

\* C11: a module of a request one of whose requirements failed to install is
\* not copied, gets no record from the request (the record it had stays), and
\* its failure is in the returned failed requirements, not among the failed
\* copies.
C11_FailedRequirementNeverCopied ==
    \A A \in result.requested :
        RequirementFailed(A) =>
            /\ \A x \in result.update.c.copied : x[1] # A.name
            /\ \A s \in result.update.saved : Key(s) # Key(A)
            /\ {x \in installed_cogs : Key(x) = Key(A)}
                  = {x \in result.before_cogs : Key(x) = Key(A)}
            /\ Requirements(A.name) \cap FailedRequirements \subseteq result.update.failed_reqs
            /\ A \notin result.update.c.failed

C11_Witness ==
    /\ \E A \in result.requested : RequirementFailed(A)
    /\ result.update.failed_reqs # {}

\* the files of cog c are at the install path
FilesExist(c, files) == \E f \in files : f[1] = c.name

\* C12: uninstall of installed cogs, their files there or not, their
\* repository known or not, returns normally and leaves no record of them; the
\* records of the other cogs and of the libraries stay as they were.
C12_UninstallRemovesRecord ==
    result.op = "uninstall" =>
        /\ ~result.raised
        /\ \A c \in result.checked : \A x \in installed_cogs : Key(x) # Key(c)
        /\ \A x \in result.before_cogs :
              (\A c \in result.checked : Key(c) # Key(x)) => x \in installed_cogs
        /\ installed_cogs \subseteq result.before_cogs
        /\ installed_libraries = result.before_libs
        /\ \A c \in result.checked : ~FilesExist(c, install_path)
        /\ result.uninstalled_cogs \cup result.failed_cogs = {c.name : c \in result.checked}

C12_Witness ==
    /\ result.op = "uninstall"
    /\ \E c \in result.checked : ~HasRepo(c) /\ c.name \in result.failed_cogs
    /\ \E c \in result.checked : HasRepo(c) /\ c.name \in result.uninstalled_cogs
    /\ installed_cogs # {}

\* the repository of record m was removed
Orphaned(m) == ~HasRepo(m)

\* the git queries of the last _available_updates: (repo, commit) pairs
GitQueries == DOMAIN result.resolve.diff_calls \cup DOMAIN result.resolve.ancestor_calls

\* C13: the update checks skip an orphaned record: _get_cogs_to_check does
\* not return it, no git query is made for it, it is in no update set, it is
\* not reinstalled and its record stays; _available_updates handed the record
\* along with the others returns what it returns for the others alone.
C13_OrphanedRecordSkipped ==
    result.op \in UpdateOps \cup {"checkforupdates"} =>
        \A m \in result.before_cogs :
            Orphaned(m) =>
                /\ m \notin result.checked
                /\ Key(m) \notin UpdateKeys
                /\ Key(m) \notin Reinstalled
                /\ m \in installed_cogs
                /\ \A k \in GitQueries : k[1] # m.repo_name
                /\ result.resolved =>
                      available_updates(result.checked \cup {m}, result.before_libs,
                                        result.at, result.modified, result.irr)
                        = result.resolve

C13_Witness ==
    /\ result.op \in UpdateOps \cup {"checkforupdates"}
    /\ result.resolved
    /\ \E m \in result.before_cogs : Orphaned(m)
    /\ result.resolve.cogs_to_update # {}
    /\ result.resolve.update_commits # {}

\* the commit of m is known, differs from the commit its repository is at and
\* is no ancestor of it
HistoryRewritten(m) ==
    /\ m.commit # NoCommit
    /\ m.commit # result.at[m.repo_name]
    /\ ~is_ancestor(m.commit, result.at[m.repo_name])

\* C14: a checked record whose commit differs from the commit of its
\* repository and is no ancestor of it is in neither update set, no diff is
\* asked for its (repo, commit) pair and its record stays as it was; the
\* records whose repository moved forward are still diffed, and fast-forwarded
\* when the diff does not name them.
C14_RewrittenHistorySkipped ==
    result.resolved =>
        /\ \A m \in Checked :
              HistoryRewritten(m) =>
                  /\ Key(m) \notin UpdateKeys
                  /\ HashKey(m) \notin DOMAIN result.resolve.diff_calls
                  /\ m \in Resolved
        /\ \A x \in Checked :
              MovedForward(x) =>
                  /\ HashKey(x) \in DOMAIN result.resolve.diff_calls
                  /\ Unmodified(x) => [x EXCEPT !.commit = result.at[x.repo_name]] \in Resolved
                  /\ ~Unmodified(x) => x \in Resolved

C14_Witness ==
    /\ result.resolved
    /\ \E m \in Checked : HistoryRewritten(m)
    /\ \E x \in Checked : MovedForward(x) /\ Unmodified(x)
    /\ \E x \in Checked : MovedForward(x) /\ ~Unmodified(x)

\* the names the sent message reports under `kind`
Reported(kind) == UNION {p[2] : p \in {q \in result.message : q[1] = kind}}

\* C15: a check or an update that returns reports every record it skipped
\* because its commit is no ancestor of the commit of its repository as one
\* whose update status could not be determined, and does not call the
\* installed cogs up to date.
C15_RewrittenHistorySurfaced ==
    (result.resolved /\ ~result.raised) =>
        \A m \in result.checked :
            HistoryRewritten(m) =>
                /\ m.name \in Reported("unable_to_determine")
                /\ <<"up_to_date", {}>> \notin result.message

\* C16: neither set _available_updates returns holds a disabled module,
\* whichever way the module got there: the name lookup of a record without
\* commit, the diff naming a cog, the diff naming a shared library, or an
\* available library that has no record.
C16_NoDisabledCandidate ==
    result.resolved =>
        \A i \in result.resolve.cogs_to_update \cup result.resolve.libraries_to_update :
            ~i.disabled

CogUpdateKeys == {Key(i) : i \in result.resolve.cogs_to_update}

\* C17: a checked record without commit whose repository is live is neither
\* ancestry-checked nor diffed, and is in the cogs to update exactly when the
\* last occurrence of its module exists and is not disabled; its record stays
\* as it was.
C17_LegacyRecordLookedUpByName ==
    result.resolved =>
        \A c \in Legacy(result.checked) :
            /\ HashKey(c) \notin GitQueries
            /\ Key(c) \notin result.modified
            /\ Key(c) \in CogUpdateKeys
                  <=> (~Has(result.irr, "no_occurrence", Key(c))
                       /\ ~Has(result.irr, "disabled", Key(c)))
            /\ c \in Resolved

C17_Witness ==
    /\ result.resolved
    /\ \E c \in Legacy(result.checked) : Key(c) \in CogUpdateKeys
    /\ \E c \in Legacy(result.checked) : Has(result.irr, "disabled", Key(c))
    /\ \E m \in Checked : MovedForward(m)

LibraryUpdateKeys == {Key(i) : i \in result.resolve.libraries_to_update}

\* the available libraries of the repositories of the checked cogs
AvailableLibraryKeys ==
    {k \in AllKeys : k[1] \in CheckedRepos(result.checked) /\ k[2] \in available_libraries(k[1])}

\* C18: an available library of the repository of a checked cog that has no
\* record is in the libraries to update, and is not among the modules that are
\* ancestry-checked and diffed; one that has a record is checked like any
\* module: it is in the libraries to update exactly when its repository moved
\* forward and the diff names it.
C18_MissingLibraryPulledIn ==
    result.resolved =>
        \A k \in AvailableLibraryKeys :
            LET recs == {l \in result.before_libs : Key(l) = k}
            IN /\ recs = {} =>
                     /\ k \in LibraryUpdateKeys
                     /\ k \notin result.modified
                     /\ \A m \in Checked : Key(m) # k
               /\ \A l \in recs :
                     /\ l \in Checked
                     /\ k \in LibraryUpdateKeys <=> (MovedForward(l) /\ k \in result.modified)
                     /\ MovedForward(l) => HashKey(l) \in DOMAIN result.resolve.diff_calls

C18_Witness ==
    /\ result.resolved
    /\ \E k \in AvailableLibraryKeys :
          /\ \A l \in result.before_libs : Key(l) # k
          /\ k \in LibraryUpdateKeys
    /\ result.modified # {}

\* _filter_incorrect_cogs was called on result.cogs
Filtered == result.op = "_filter_incorrect_cogs"

Range(s) == {s[i] : i \in DOMAIN s}

\* a <= b for versions
AtMost(a, b) == ~Greater(a, b)

\* the bound rule of C19 for a cog and the version of the running bot
WithinBotBounds(cog) ==
    /\ AtMost(cog.min_bot_version, red_version_info)
    /\ \/ AtMost(red_version_info, cog.max_bot_version)
       \/ Greater(cog.min_bot_version, cog.max_bot_version)

\* C19: a cog of the input that passes the python check is among the accepted
\* cogs exactly when min_bot_version <= host version and (max_bot_version >=
\* host version or min_bot_version > max_bot_version).
C19_BotVersionBoundRule ==
    Filtered =>
        \A i \in DOMAIN result.cogs :
            ~PythonOutdated(result.cogs[i]) =>
                (result.cogs[i] \in Range(result.correct_cogs) <=> WithinBotBounds(result.cogs[i]))

PassesBothChecks(cog) == ~PythonOutdated(cog) /\ ~BotOutdated(cog)

\* what C19 and C20 say of the cogs, wherever the call returns
RuleWhereReturned ==
    (Filtered /\ ~result.raised) =>
        /\ result.correct_cogs = SelectSeq(result.cogs, PassesBothChecks)
        /\ \A i \in DOMAIN result.cogs :
              LET cog == result.cogs[i] IN
              /\ ~PythonOutdated(cog) =>
                    (cog \in Range(result.correct_cogs) <=> WithinBotBounds(cog))
              /\ PythonOutdated(cog) =>
                    /\ cog.name \in Range(result.outdated_python_version)
                    /\ cog.name \notin Range(result.outdated_bot_version)

\* C20: the accepted cogs are the cogs of the input that pass both checks, in
\* the order of the input, and a cog failing both checks is reported under the
\* python version and not under the bot version.
C20_OrderPreservingFirstReasonWins ==
    Filtered =>
        /\ result.correct_cogs = SelectSeq(result.cogs, PassesBothChecks)
        /\ \A i \in DOMAIN result.cogs :
              (PythonOutdated(result.cogs[i]) /\ BotOutdated(result.cogs[i])) =>
                  /\ result.cogs[i].name \in Range(result.outdated_python_version)
                  /\ result.cogs[i].name \notin Range(result.outdated_bot_version)

\* how many of the three lists of the returned result hold the cog
ListsHolding(cog) ==
    (IF cog \in Range(result.correct_cogs) THEN 1 ELSE 0)
    + (IF cog.name \in Range(result.outdated_python_version) THEN 1 ELSE 0)
    + (IF cog.name \in Range(result.outdated_bot_version) THEN 1 ELSE 0)

\* C21: _filter_incorrect_cogs returns normally for every input, with one cog
\* or several rejected for either reason; every cog of the input is in exactly
\* one of accepted, rejected for its python version, rejected for its bot
\* version, and the returned message names every rejected cog.
C21_FilterReturnsNormally ==
    Filtered =>
        /\ ~result.raised
        /\ \A i \in DOMAIN result.cogs : ListsHolding(result.cogs[i]) = 1
        /\ \A i \in DOMAIN result.cogs :
              ~PassesBothChecks(result.cogs[i]) =>
                  result.cogs[i].name \in Range(result.outdated_python_version)
                                          \cup Range(result.outdated_bot_version)

\* the last command was an install request that got as far as _install_cogs
InstallRequest == result.op \in {"install", "installversion"} /\ result.update.called

\* the cog records the install request saved
SavedCogs == {m \in result.update.saved : InstallableType(m.name) = "COG"}

\* C22: every cog record persisted by an install request is pinned exactly
\* when the request named a revision (installversion), the persisted map holds
\* that record, and a cog whose copy failed gets no record from the request.
C22_PinOnRevision ==
    InstallRequest =>
        /\ \A m \in SavedCogs :
              /\ m.pinned = (result.op = "installversion")
              /\ m \in installed_cogs
        /\ \A A \in result.update.c.failed :
              /\ \A m \in result.update.saved : Key(m) # Key(A)
              /\ {x \in installed_cogs : Key(x) = Key(A)}
                    = {x \in result.before_cogs : Key(x) = Key(A)}
        /\ ~result.raised =>
              {Key(m) : m \in SavedCogs}
                  = {Key(A) : A \in result.requested \ result.update.c.failed}

C22_Witness ==
    /\ InstallRequest
    /\ result.op = "installversion"
    /\ SavedCogs # {}
    /\ result.update.c.failed # {}

\* a plain install saved a cog record while the copy of another cog failed
InstalledUnpinned ==
    /\ InstallRequest
    /\ result.op = "install"
    /\ SavedCogs # {}
    /\ result.update.c.failed # {}

\* the keys and the kinds the list of the last call names
ModuleKeys == {Key(result.modules[i]) : i \in DOMAIN result.modules}

\* the i-th module is the last of the list with its key
LastOfKey(i) ==
    \A j \in DOMAIN result.modules :
        Key(result.modules[j]) = Key(result.modules[i]) => j <= i

\* the records of map S under keys the list does not name
Others(S) == {m \in S : Key(m) \notin ModuleKeys}

\* the list names a key that had a record
NamesRecorded == \E m \in result.before_cogs \cup result.before_libs : Key(m) \in ModuleKeys

\* C23: after _save_to_installed or _remove_from_installed each map holds at
\* most one record per key and only records of its kind; a save leaves under
\* each key it names exactly the last record given for it, a remove leaves
\* none; the records under every other key, and the map of a kind the list
\* does not hold, are as they were.
C23_KeyUniqueness ==
    result.op \in {"_save_to_installed", "_remove_from_installed"} =>
        /\ UniqueKeys(installed_cogs) /\ UniqueKeys(installed_libraries)
        /\ \A m \in installed_cogs : InstallableType(m.name) = "COG"
        /\ \A m \in installed_libraries : InstallableType(m.name) = "SHARED_LIBRARY"
        /\ Others(installed_cogs) = Others(result.before_cogs)
        /\ Others(installed_libraries) = Others(result.before_libs)
        /\ \A i \in DOMAIN result.modules :
              LET m == result.modules[i]
                  now == {x \in installed_cogs \cup installed_libraries : Key(x) = Key(m)}
              IN /\ (result.op = "_save_to_installed" /\ LastOfKey(i)) => now = {m}
                 /\ result.op = "_remove_from_installed" => now = {}
        /\ (\A i \in DOMAIN result.modules :
               InstallableType(result.modules[i].name) = "COG")
              => installed_libraries = result.before_libs
        /\ (\A i \in DOMAIN result.modules :
               InstallableType(result.modules[i].name) = "SHARED_LIBRARY")
              => installed_cogs = result.before_cogs

\* a save replaced the record of a key, and a list named one key twice
C23_Witness ==
    /\ result.op = "_save_to_installed"
    /\ \E i \in DOMAIN result.modules :
          \E x \in result.before_cogs :
              Key(x) = Key(result.modules[i]) /\ x # result.modules[i] /\ LastOfKey(i)
    /\ \E i \in DOMAIN result.modules : ~LastOfKey(i)

\* a remove dropped a record
Removed ==
    /\ result.op = "_remove_from_installed"
    /\ NamesRecorded

\* the cogs the last sweep was asked about: the given cogs, or else the
\* installed cogs of the given repositories, or else every installed cog
AskedAbout ==
    IF result.cogs_arg # {} THEN result.cogs_arg
    ELSE IF result.repos_arg # {}
    THEN {c \in result.before_cogs : c.repo_name \in result.repos_arg}
    ELSE result.before_cogs

\* the repositories the last sweep updated
SweptRepos ==
    IF result.cogs_arg = {} /\ result.repos_arg = {} THEN repos
    ELSE IF result.repos_arg # {} THEN result.repos_arg
    ELSE {c.repo_name : c \in {x \in result.cogs_arg : HasRepo(x)}}

\* the last command went on after _get_cogs_to_check returned
WentOn == result.resolved \/ <<"no_cogs_to_check", {}>> \in result.message

\* C24: in an update sweep some of whose repositories failed to update,
\* _get_cogs_to_check returns the failed repositories by name, no cog of a
\* failed repository, every cog asked about whose repository did not fail,
\* and the command goes on with them.
C24_RepoFailureIsolated ==
    (result.op \in {"update", "updateallfromrepos"} /\ result.failed_repos # {}) =>
        /\ result.failed_repos \subseteq SweptRepos
        /\ \A c \in result.to_check : c.repo_name \notin result.failed_repos
        /\ \A c \in AskedAbout :
              (HasRepo(c) /\ c.repo_name \notin result.failed_repos) => c \in result.to_check
        /\ result.to_check \subseteq AskedAbout
        /\ WentOn
        /\ ~result.raised => Part("failed_repos", result.failed_repos) \subseteq result.message

C24_Witness ==
    /\ result.op \in {"update", "updateallfromrepos"}
    /\ result.failed_repos # {}
    /\ \E c \in AskedAbout : c.repo_name \in result.failed_repos
    /\ result.to_check # {}
    /\ result.resolved

\* the last command was updatetoversion and it checked out the resolved commit
CheckedOutRevision ==
    /\ result.op = "updatetoversion"
    /\ result.rev_error = "none"
    /\ result.failed_repos = {}

\* C25: when updatetoversion returns after it has checked out the resolved
\* commit, whatever the outcome (updates installed, nothing to update, no cogs
\* to check, requirement failure, exception), every repository is back at the
\* commit of its branch.
C25_UpdateToRevisionRestoresRef ==
    CheckedOutRevision => commit = branch

\* updatetoversion found no cogs to check and returned normally
NoCogsToCheck ==
    /\ CheckedOutRevision
    /\ ~result.raised
    /\ <<"no_cogs_to_check", {}>> \in result.message

\* the ref is restored on every outcome with cogs to check that returns normally
RestoredWhenChecked ==
    (CheckedOutRevision /\ result.resolved /\ ~result.raised) => commit = branch

\* the revision the last updatetoversion checked out in the repository of m
Target(m) == result.at[m.repo_name]

\* the recorded commit of m is a strict ancestor of the target revision
StrictAncestorOfTarget(m) == m.commit # Target(m) /\ is_ancestor(m.commit, Target(m))

\* the target revision is a strict ancestor of the recorded commit of m
TargetOlder(m) == m.commit # Target(m) /\ is_ancestor(Target(m), m.commit)

\* neither is an ancestor of the other
TargetUnrelated(m) == ~is_ancestor(m.commit, Target(m)) /\ ~is_ancestor(Target(m), m.commit)

\* the last command changed the record of m, or copied or tried to copy its files
Changed(m) == m \notin installed_cogs \/ Key(m) \in Reinstalled

\* C26: updatetoversion changes the record or the files of a cog whose commit
\* is known only when that commit is a strict ancestor of the revision checked
\* out in the cog's repository; for a revision equal to, older than or
\* unrelated to the recorded commit the cog is not reinstalled and its record
\* stays.
C26_UpdateNeverDowngrades ==
    result.op = "updatetoversion" =>
        \A m \in result.before_cogs :
            (m.commit # NoCommit /\ Changed(m)) =>
                /\ result.resolved
                /\ m.repo_name \in result.repos_arg
                /\ StrictAncestorOfTarget(m)

\* updatetoversion resolved the updates of an unpinned cog recorded at a commit
\* newer than the revision
C26_Witness ==
    /\ result.op = "updatetoversion"
    /\ result.resolved
    /\ \E m \in result.checked : m.commit # NoCommit /\ TargetOlder(m)

\* updatetoversion changed a cog whose commit is known
ChangedKnown ==
    /\ result.op = "updatetoversion"
    /\ \E m \in result.before_cogs :
          m.commit # NoCommit /\ m \notin installed_cogs /\ Key(m) \in Reinstalled

\* the same with a revision unrelated to the recorded commit
UnrelatedTarget ==
    /\ result.op = "updatetoversion"
    /\ result.resolved
    /\ \E m \in result.checked : m.commit # NoCommit /\ TargetUnrelated(m)

\* the same with the revision the cog is recorded at
EqualTarget ==
    /\ result.op = "updatetoversion"
    /\ result.resolved
    /\ \E m \in result.checked : m.commit = Target(m)

\* get_full_sha1 of the last command raised for the revision the user gave
RevisionError ==
    /\ result.op \in {"installversion", "updatetoversion"}
    /\ result.rev_error # "none"

\* C27: when the revision given to installversion or updatetoversion is
\* ambiguous or unknown, the command returns with a message, which for an
\* ambiguous revision is about its candidates and for an unknown one is
\* another message; it checks out nothing (after installversion the refs are
\* as they were, after updatetoversion a repository is where it was or, after
\* the fetch, on its branch), copies nothing, and leaves the persisted maps as
\* they were.
C27_RevisionErrorChangesNothing ==
    RevisionError =>
        /\ ~result.raised
        /\ result.rev_error = "ambiguous" =>
              /\ result.message = {<<"ambiguous_revision", {}>>}
              /\ Cardinality(result.candidates) >= 2
        /\ result.rev_error = "unknown" => result.message = {<<"unknown_revision", {}>>}
        /\ result.op = "installversion" => commit = result.before_commit
        /\ \A r \in AllRepos : commit[r] = result.before_commit[r] \/ commit[r] = branch[r]
        /\ ~result.update.called /\ ~result.resolved
        /\ Reinstalled = {}
        /\ installed_cogs = result.before_cogs
        /\ installed_libraries = result.before_libs

\* updatetoversion was given an ambiguous revision after its fetch moved the
\* branch of the repository forward
C27_Witness ==
    /\ RevisionError
    /\ result.op = "updatetoversion"
    /\ result.rev_error = "ambiguous"
    /\ commit # result.before_commit
    /\ result.before_cogs # {}

\* installversion was given an unknown revision
UnknownRevisionInstall ==
    /\ RevisionError
    /\ result.op = "installversion"
    /\ result.rev_error = "unknown"

\* C30: one call of _available_updates asks is_ancestor(old commit, repo.commit)
\* at most once per (repo, old commit) pair of the checked records, however
\* many modules share the pair.
C30_OneAncestryQueryPerPair ==
    result.resolved =>
        \A k \in DOMAIN result.resolve.ancestor_calls :
            result.resolve.ancestor_calls[k] <= 1

\* every task in flight has returned
AllDone == tasks # <<>> /\ \A i \in DOMAIN tasks : tasks[i].pc = "done"

\* every file a task copied was copied with the repository at the commit of
\* the module the task was copying
CopiedAtOwnCommit ==
    \A i \in DOMAIN tasks : \A x \in tasks[i].copied : x[2] = x[3]

\* C28: under any interleaving of two install requests at their awaits, a
\* module is copied only while its repository is at the module's commit, and
\* when both requests have returned every repository is at the ref it was at
\* before the first one started.
C28_CheckoutSerialized ==
    /\ CopiedAtOwnCommit
    /\ AllDone => commit = branch

\* the tasks work on different repositories
OnDifferentRepositories ==
    \A i, j \in DOMAIN tasks : i # j => tasks[i].repo # tasks[j].repo

\* requests on different repositories do not disturb each other
DifferentRepositoriesIsolated ==
    OnDifferentRepositories => C28_CheckoutSerialized

\* both requests returned and a module was copied at another commit than its own
CopiedAtWrongCommit == AllDone /\ ~CopiedAtOwnCommit

\* both requests returned and a repository is left off its branch
LeftOffBranch == AllDone /\ commit # branch

\* task i is a pin or unpin that saved the record of key k with its new flag
PinSaved(i, k) ==
    /\ tasks[i].op \in {"pin", "unpin"}
    /\ \E m \in tasks[i].saved : Key(m) = k

\* task j is a check that saved the record of key k with its new commit
FastForwarded(j, k) ==
    /\ tasks[j].op = "checkforupdates"
    /\ \E m \in tasks[j].saved : Key(m) = k

\* C29: when a pin or unpin of a cog and a check that fast-forwards the same
\* cog have both returned, whatever their interleaving, the persisted record
\* of the cog has the flag the pin or unpin set and the commit the check set.
C29_NoLostUpdate ==
    AllDone =>
        \A i, j \in DOMAIN tasks : \A k \in CogKeys :
            (PinSaved(i, k) /\ FastForwarded(j, k)) =>
                \E m \in installed_cogs :
                    /\ Key(m) = k
                    /\ m.pinned = (tasks[i].op = "pin")
                    /\ \E x \in tasks[j].saved : Key(x) = k /\ m.commit = x.commit

\* the flag the pin or unpin set is gone
LostPin ==
    /\ AllDone
    /\ \E i, j \in DOMAIN tasks : \E k \in CogKeys :
          /\ PinSaved(i, k) /\ FastForwarded(j, k)
          /\ \E m \in installed_cogs : Key(m) = k /\ m.pinned # (tasks[i].op = "pin")

\* the commit the check set is gone
LostCommit ==
    /\ AllDone
    /\ \E i, j \in DOMAIN tasks : \E k \in CogKeys :
          /\ PinSaved(i, k) /\ FastForwarded(j, k)
          /\ \E m \in installed_cogs :
                Key(m) = k /\ \A x \in tasks[j].saved : Key(x) = k => m.commit # x.commit

\* both saved the record of one cog and both changes are in the persisted record
BothKept ==
    /\ AllDone
    /\ \E i, j \in DOMAIN tasks : \E k \in CogKeys :
          /\ PinSaved(i, k) /\ FastForwarded(j, k)
          /\ \E m \in installed_cogs :
                /\ Key(m) = k /\ m.pinned = (tasks[i].op = "pin")
                /\ \E x \in tasks[j].saved : Key(x) = k /\ m.commit = x.commit

\* how many copy_to awaits the last call of _install_cogs made for cog A
CopyAttempts(A) ==
    LET steps == InstallCogsSteps(result.requested, result.at)
    IN Cardinality({i \in DOMAIN steps : steps[i] = <<"copy_to", A>>})

\* C31: when _install_cogs returns, every file it copied was copied with the
\* repository at the commit of the module, every module of the input was
\* attempted exactly once, and the installed and failed tuples partition the
\* input.
C31_CopyAtRightCommit ==
    (result.op = "_install_cogs" /\ InstallCogsReturned) =>
        /\ \A x \in result.update.c.copied : x[2] = x[3]
        /\ \A A \in result.requested :
              /\ CopyAttempts(A) = 1
              /\ (from_installable(A) \in result.update.c.installed)
                    # (A \in result.update.c.failed)
              /\ from_installable(A) \in result.update.c.installed
                    <=> <<A.name, A.commit>> \in install_path
        /\ result.update.c.failed \subseteq result.requested
        /\ result.update.c.installed \subseteq {from_installable(A) : A \in result.requested}

\* the call was given cogs of one repository at two commits, neither the ref
\* of the repository, and cogs of another repository, and one copy failed
C31_Witness ==
    /\ result.op = "_install_cogs" /\ InstallCogsReturned
    /\ \E A, B \in result.requested :
          /\ A.repo_name = B.repo_name /\ A.commit # B.commit
          /\ A.commit # result.at[A.repo_name] /\ B.commit # result.at[A.repo_name]
    /\ result.update.c.failed # {}
    /\ result.update.c.installed # {}

\* the cogs and the libraries whose copy failed in the last update
FailedToUpdate == result.update.c.failed \cup result.update.l.failed

\* the records of the checked cogs as they are persisted now
RereadNow == {x \in installed_cogs : \E c \in result.checked : Key(c) = Key(x)}

\* what the next _available_updates returns on them, the repositories and
\* what they publish being as they were
NextResolve ==
    available_updates(RereadNow, installed_libraries, result.at, result.modified, result.irr)

\* C32: a module whose copy failed during an update keeps the record it had
\* (or none, if it had none), and the next resolve, with the repositories
\* where they were, returns it again as an update candidate.
C32_FailedUpdateRetried ==
    (result.op \in UpdateOps /\ result.update.called) =>
        \A A \in FailedToUpdate :
            /\ {x \in installed_cogs \cup installed_libraries : Key(x) = Key(A)}
                  = {x \in result.before_cogs \cup result.before_libs : Key(x) = Key(A)}
            /\ \E i \in NextResolve.cogs_to_update \cup NextResolve.libraries_to_update :
                  Key(i) = Key(A) /\ i.commit = A.commit

\* an update in which the copy of one cog failed and another was installed
C32_Witness ==
    /\ result.op \in UpdateOps /\ result.update.called /\ ~result.raised
    /\ result.update.c.failed # {}
    /\ result.update.saved # {}

\* an update in which a library failed to install
FailedLibrary ==
    /\ result.op \in UpdateOps /\ result.update.called /\ ~result.raised
    /\ result.update.l.failed # {}

\* the last command was pin or unpin; Flag is the value it sets
PinOrUnpin == result.op \in {"pin", "unpin"}

Flag == result.op = "pin"

\* C33: pin (unpin) leaves every record it was given with pinned true (false)
\* and its repo, name and commit as they were, and every other record and
\* the libraries as they were; it writes no record that had the flag already;
\* and the opposite command on the records it wrote restores the map.
C33_PinChangesOnlyFlag ==
    PinOrUnpin =>
        /\ \A c \in result.checked : [c EXCEPT !.pinned = Flag] \in installed_cogs
        /\ installed_cogs \ {[c EXCEPT !.pinned = Flag] : c \in result.checked}
              = result.before_cogs \ result.checked
        /\ installed_libraries = result.before_libs
        /\ commit = result.before_commit
        /\ \A s \in result.update.saved :
              \E c \in result.checked : Key(c) = Key(s) /\ c.pinned # Flag
        /\ save_to_installed(installed_cogs, installed_libraries,
                             set_pinned(result.update.saved, ~Flag)).cogs
              = result.before_cogs

\* a pin was given a pinned and an unpinned cog, with another cog installed
C33_Witness ==
    /\ result.op = "pin"
    /\ \E c \in result.checked : c.pinned
    /\ \E c \in result.checked : ~c.pinned /\ c.commit # NoCommit
    /\ result.before_cogs \ result.checked # {}

\* an unpin wrote a record
Unpinned == result.op = "unpin" /\ result.update.saved # {}

\* the call of _install_requirements that returned
Returned == tasks # <<>> /\ tasks[1].pc = "returned"

\* where requirement q stands in the lists of the repositories
PlacesOf(q) ==
    {p \in (DOMAIN tasks[1].lists) \X (1..Cardinality(AllRequirements)) :
        p[2] \in DOMAIN tasks[1].lists[p[1]] /\ tasks[1].lists[p[1]][p[2]] = q}

\* the calls of install_raw_requirements made for requirement q
AttemptsOf(q) == {k \in DOMAIN tasks[1].attempts : tasks[1].attempts[k].req = q}

\* C34: _install_requirements puts each distinct requirement of the given
\* cogs on the list of exactly one known repository, the i-th enumerated on
\* that of repository i mod n, asks that repository to install it exactly
\* once, and returns exactly the requirements whose call answered False.
C34_RequirementsDistributed ==
    Returned =>
        LET t == tasks[1]
            n == Len(t.repos)
        IN /\ \A q \in requirements_of(t.cogs) : Cardinality(PlacesOf(q)) = 1
           /\ \A j \in DOMAIN t.lists : \A k \in DOMAIN t.lists[j] :
                 t.lists[j][k] \in requirements_of(t.cogs)
           /\ \A i \in DOMAIN t.order :
                 \E p \in PlacesOf(t.order[i]) : p[1] = ((i - 1) % n) + 1
           /\ \A q \in requirements_of(t.cogs) :
                 /\ Cardinality(AttemptsOf(q)) = 1
                 /\ \A k \in AttemptsOf(q) : \E p \in PlacesOf(q) : t.attempts[k].repo = t.repos[p[1]]
           /\ Len(t.attempts) = Cardinality(requirements_of(t.cogs))
           /\ {t.failed_reqs[i] : i \in DOMAIN t.failed_reqs}
                 = {t.attempts[k].req : k \in {x \in DOMAIN t.attempts : ~t.ok[x]}}
           /\ Len(t.failed_reqs) = Cardinality({x \in DOMAIN t.attempts : ~t.ok[x]})

\* two cogs declare the same requirement, three distinct requirements go to
\* two repositories, one installation fails and one succeeds
C34_Witness ==
    /\ Returned
    /\ Len(tasks[1].repos) = 2
    /\ Cardinality(requirements_of(tasks[1].cogs)) = 3
    /\ \E i, j \in DOMAIN tasks[1].cogs :
          /\ i # j
          /\ \E a \in DOMAIN tasks[1].cogs[i].requirements, b \in DOMAIN tasks[1].cogs[j].requirements :
                tasks[1].cogs[i].requirements[a] = tasks[1].cogs[j].requirements[b]
    /\ \E k \in DOMAIN tasks[1].ok : tasks[1].ok[k]
    /\ \E k \in DOMAIN tasks[1].ok : ~tasks[1].ok[k]

\* reinstallreqs returned
ReinstallReturned == tasks # <<>> /\ tasks[1].pc = "returned" /\ result.op = "reinstallreqs"

\* C35: the message of reinstallreqs names every shared library that failed
\* to install, of every repository, and reports errors when one failed.
C35_EveryFailedLibraryNamed ==
    ReinstallReturned =>
        \A lib \in tasks[1].all_failed_libs : tasks[1].errors /\ lib[2] \in tasks[1].libnames

\* the names in the message are those of the libraries that failed in the
\* repository processed last
NamesOfLastRepository ==
    (ReinstallReturned /\ tasks[1].all_failed_libs # {}) =>
        tasks[1].libnames =
            {lib[2] : lib \in {x \in tasks[1].all_failed_libs :
                                  x[1] = tasks[1].order[Len(tasks[1].order)]}}

\* libraries of two repositories failed
FailedInSeveral ==
    /\ ReinstallReturned
    /\ \E x, y \in tasks[1].all_failed_libs : x[1] # y[1]

\* the names asked for that an installed cog bore when the install started
NamesTaken == {n \in result.cogs_arg : \E m \in result.before_cogs : m.name = n}

\* C36: no two installed cogs bear the same name, whatever their
\* repositories; and an install asked for a name an installed cog bears (of
\* the same repository or of another) copies nothing under that name and
\* leaves that cog's record as it was.
C36_NamesGloballyUnique ==
    /\ \A x, y \in installed_cogs : x.name = y.name => x = y
    /\ result.op \in {"install", "installversion"} =>
          \A n \in NamesTaken :
             /\ \A m \in result.before_cogs : m.name = n => m \in installed_cogs
             /\ \A x \in result.update.c.copied : x[1] # n

\* an install asked for two names installed from another repository and
\* installed a third cog
C36_Witness ==
    /\ result.op \in {"install", "installversion"}
    /\ \E p \in result.message : p[1] = "name_already_used" /\ p[2] # {}
    /\ result.update.c.copied # {}

\* an install asked for a cog installed from the same repository
AlreadyInstalledAsked ==
    /\ result.op \in {"install", "installversion"}
    /\ \E p \in result.message : p[1] = "already_installed" /\ p[2] # {}
    /\ result.update.c.copied # {}

\* an install asked for one name installed from another repository only
OneNameUsed ==
    /\ result.op = "install" /\ result.raised
    /\ \E p \in result.message : p[1] = "name_already_used" /\ Cardinality(p[2]) = 1

\* invocation i is held in cog_before_invoke / runs its body / was rejected
Held(i) == i \in DOMAIN tasks /\ tasks[i].pc = "wait"

InBody(i) == i \in DOMAIN tasks /\ tasks[i].pc = "body"

Rejected(i) == i \in DOMAIN tasks /\ tasks[i].pc = "rejected"

\* a command body runs only once initialize() has returned; the event is not
\* set after an exception without _ready_raised; no body runs after one
GateSafe ==
    /\ \A i \in 1..MaxTasks : InBody(i) => init_task.pc = "finished" /\ ready /\ ~ready_raised
    /\ (init_task.pc = "raised" /\ ready) => ready_raised
    /\ ready_raised => init_task.pc = "raised"

\* C37: no command body runs before the initialization task has finished;
\* when it ended with an exception _ready_raised is set no later than the
\* event, and every command invoked, before or after, is rejected and does
\* not run.
C37_InitializationGate ==
    /\ []GateSafe
    /\ \A i \in 1..MaxTasks : (Held(i) /\ init_task.pc = "raised") ~> Rejected(i)

\* a command invoked before the exception and one invoked after it were
\* both rejected
C37_Witness ==
    /\ init_task.pc = "raised"
    /\ Len(tasks) = 2
    /\ Rejected(1) /\ Rejected(2)

\* a command held while the task was pending runs its body
HeldThenRan == InBody(1) /\ init_task.pc = "finished" /\ init_task.old_conf # <<>>

\* the initialization task has ended: it returned, raised or was cancelled
Terminated == init_task.pc \in {"finished", "raised", "cancelled"}

\* C38: once the initialization task has ended, however it ended, the ready
\* event is eventually set, and every command held in cog_before_invoke
\* eventually proceeds or is rejected.
C38_NoCommandWaitsForever ==
    /\ Terminated ~> ready
    /\ \A i \in 1..MaxTasks : (Held(i) /\ Terminated) ~> ~Held(i)

\* after a return or an exception the event is set and the held commands go on
ReadyUnlessCancelled ==
    /\ (init_task.pc \in {"finished", "raised"}) ~> ready
    /\ \A i \in 1..MaxTasks : (Held(i) /\ init_task.pc \in {"finished", "raised"}) ~> ~Held(i)

\* the task was cancelled, its callback has run, the event is not set and a
\* command is held
HeldForever ==
    /\ init_task.pc = "cancelled" /\ init_task.callback_ran
    /\ ~ready
    /\ Held(1)

\* the records the entries of the list old_conf stand for
MigratedRecords(old_conf) ==
    {InstalledModule(old_conf[i].repo_name, old_conf[i].cog_name, NoCommit, FALSE) :
        i \in DOMAIN old_conf}

\* when initialize() has returned the config is at schema 1; what it read
\* from the raw list is in the map, one record per entry, the list is
\* cleared and the other records are as they were
MigrationDone ==
    init_task.pc = "finished" =>
        /\ schema_version = 1
        /\ MigratedRecords(init_task.old_conf) \subseteq installed_cogs
        /\ init_task.old_conf # <<>> => installed_raw = <<>>
        /\ \A m \in installed_cogs \cup result.before_cogs :
              (\A x \in MigratedRecords(init_task.old_conf) : Key(x) # Key(m)) =>
                 (m \in installed_cogs /\ m \in result.before_cogs)

\* a step never lowers schema_version, and at schema 1 or more it changes
\* neither the map nor the raw list
MigrationStep ==
    /\ schema_version' >= schema_version
    /\ schema_version >= 1 => UNCHANGED <<installed_cogs, installed_raw, schema_version>>
    /\ installed_raw' # installed_raw => schema_version = 0 /\ installed_raw' = <<>>

\* C39: at schema 0 initialization turns every entry of the raw "installed"
\* list into a cog record under its repo and name with commit "" and pinned
\* false, clears the list and sets schema_version to 1; schema_version never
\* decreases; at schema 1 initialization migrates nothing and leaves the map
\* as it was.
C39_MigrationOnce ==
    /\ []MigrationDone
    /\ [][MigrationStep]_vars

\* a list of two entries of different cogs was migrated
C39_Witness ==
    /\ init_task.pc = "finished"
    /\ Len(init_task.old_conf) = 2
    /\ Cardinality(installed_cogs) >= 2
    /\ schema_version = 1
    /\ installed_raw = <<>>

\* initialization at schema 1 returned with a raw list and records in place
LaterInitialization ==
    /\ init_task.pc = "finished"
    /\ installed_raw # <<>>
    /\ installed_cogs # {}

====
